---------------------------- MODULE Spec2Model ----------------------------
(***************************************************************************)
(* Model of the nonconvex quadratic handler of MINOTAUR (QuadHandler.cpp)  *)
(* and of the Problem container (Problem.cpp).                             *)
(*                                                                         *)
(* Numbers.  The code computes in doubles.  The model uses decimal fixed   *)
(* point: a quantity of the dimension of an operand x (a bound or value of *)
(* x, the weight of x in an envelope) is an integer number of 1e-5, a      *)
(* quantity of the dimension of a product y (a bound or value of y, a      *)
(* right-hand side) is an integer number of 1e-10.  Sums, products and     *)
(* comparisons are then exact; quotients and square roots are taken only   *)
(* where they are exact (Div and Sqrt have no value otherwise).            *)
(***************************************************************************)
EXTENDS Integers, Sequences, FiniteSets, TLC

VARIABLES
  pLb, pUb,        \* p_: lower and upper bound of every variable of the original problem
  rLb, rUb,        \* rel: bounds of the relaxation's copy of every variable
  rCons,           \* rel: the constraints of the relaxation, each lf <= ub
  x2Funs,          \* x2Funs_: the LinSqr records
  x0x1Funs,        \* x0x1Funs_: the LinBil records
  sol,             \* the primal solution handed to the handler by the engine
  frames,          \* the tree manager's stack: per descent, the modifications applied
  pc,              \* where the solve is: "start", "root", "node", "solved", "infeasible"
  ret,             \* what the last handler call returned
  restored,        \* the problem and relaxation as they were when the node just left was entered
  vars_, cons_,    \* Problem: the vectors of variables and of constraints
  nextVId_, nextCId_, numDVars_, numDCons_, engine_,  \* Problem: counters, attached engine
  vbnd,            \* Variable::lb_, ub_ of every variable of the Problem, by id
  vcons,           \* Variable::cons_: the constraints every variable refers back to, by id
  cfun,            \* Constraint::f_: the variables of the parts of every constraint's function
  cbnd,            \* Constraint::lb_, ub_ of every constraint, by id
  obj_,            \* Problem::obj_
  engineSaw        \* the last change of a bound, function or objective the engine was told of

vars == <<pLb, pUb, rLb, rUb, rCons, x2Funs, x0x1Funs, sol, frames, pc, ret,
          restored, vars_, cons_, nextVId_, nextCId_, numDVars_, numDCons_, engine_,
          vbnd, vcons, cfun, cbnd, obj_, engineSaw>>

hvars == <<pLb, pUb, rLb, rUb, rCons, x2Funs, x0x1Funs, sol, frames, pc, ret,
           restored>>
xvars == <<vbnd, vcons, cfun, cbnd, obj_, engineSaw>>
cvars == <<vars_, cons_, nextVId_, nextCId_, numDVars_, numDCons_, engine_,
           vbnd, vcons, cfun, cbnd, obj_, engineSaw>>

---------------------------------------------------------------------------
(* Numbers *)

\* aTol_ = 1e-5 applied to a quantity of the dimension of x (units of 1e-5)
aTolX == 1
\* aTol_ = 1e-5 applied to a quantity of the dimension of y (units of 1e-10)
aTolY == 100000
\* INFINITY of <cmath>: larger than every finite number of the model
INFINITY == 2000000000

Abs(a) == IF a < 0 THEN -a ELSE a
Min(a, b) == IF a < b THEN a ELSE b
Max(a, b) == IF a > b THEN a ELSE b
Min4(a, b, c, d) == Min(Min(a, b), Min(c, d))
Max4(a, b, c, d) == Max(Max(a, b), Max(c, d))
IsInf(a) == a = INFINITY \/ a = -INFINITY
\* the product of an infinity and zero
NaN == 2000000001

\* a * b and -a in IEEE arithmetic, exact on the finite numbers of the model
Times(a, b) ==
  IF a = NaN \/ b = NaN THEN NaN
  ELSE IF IsInf(a) \/ IsInf(b)
  THEN IF a = 0 \/ b = 0 THEN NaN
       ELSE IF (a < 0) = (b < 0) THEN INFINITY ELSE -INFINITY
  ELSE a * b
Neg(a) == IF a = NaN THEN NaN ELSE -a

\* a < b - tol and a > b + tol in extended reals
LtTol(a, b, tol) == IF IsInf(a) \/ IsInf(b) THEN a < b ELSE a < b - tol
GtTol(a, b, tol) == IF IsInf(a) \/ IsInf(b) THEN a > b ELSE a > b + tol

\* a / b for b # 0, defined when the quotient is exact
Div(a, b) ==
  LET q == Abs(a) \div Abs(b)
      s == IF (a < 0) = (b < 0) THEN q ELSE -q
  IN  CHOOSE r \in {s} : r * b = a

\* sqrt(a), defined when a is a perfect square; sqrt(INFINITY) = INFINITY
Sqrt(a) == IF a = INFINITY THEN INFINITY
           ELSE CHOOSE r \in 0..46340 : r * r = a

---------------------------------------------------------------------------
(* The variables of the modelled problem: operands x0, x1 and the          *)
(* auxiliary variables ys = x0^2 and yb = x0*x1, by their index.           *)

X0 == 0
X1 == 1
YS == 2
YB == 3
Vars == {X0, X1, YS, YB}
YVars == {YS, YB}

\* aTol_ in the units of variable v
aTol(v) == IF v \in YVars THEN aTolY ELSE aTolX

---------------------------------------------------------------------------
(* Interval arithmetic (Operations.h) *)

BoundsOnSquare(l, u) ==
  IF u < 0 THEN [lb |-> u * u, ub |-> l * l]
  ELSE IF l > 0 THEN [lb |-> l * l, ub |-> u * u]
  ELSE [lb |-> 0, ub |-> Max(l * l, u * u)]

BoundsOnProduct(l0, u0, l1, u1) ==
  [lb |-> Min4(l0 * l1, l0 * u1, u0 * l1, u0 * u1),
   ub |-> Max4(l0 * l1, l0 * u1, u0 * l1, u0 * u1)]

\* [l0,u0] / [l1,u1]; unbounded when the denominator contains zero
BoundsOnDiv(l0, u0, l1, u1) ==
  IF l1 <= 0 /\ u1 >= 0 THEN [lb |-> -INFINITY, ub |-> INFINITY]
  ELSE [lb |-> Min4(Div(l0, l1), Div(l0, u1), Div(u0, l1), Div(u0, u1)),
        ub |-> Max4(Div(l0, l1), Div(l0, u1), Div(u0, l1), Div(u0, u1))]

---------------------------------------------------------------------------
(* Modifications (VarBoundMod, VarBoundMod2, LinConMod): each records the  *)
(* old state when it is constructed and the new state it writes.           *)
(* A handler call works on a store S: the bounds of p_ and rel, the        *)
(* constraints of rel, the vectors p_mods and r_mods and the flag changed. *)

Store(plb, pub, rlb, rub, rcons) ==
  [pLb |-> plb, pUb |-> pub, rLb |-> rlb, rUb |-> rub, rCons |-> rcons,
   p_mods |-> <<>>, r_mods |-> <<>>, changed |-> FALSE]

\* new VarBoundMod(v, lu, val) on a variable of prob ("p" or "rel")
VarBoundMod(S, prob, v, lu, val) ==
  [kind |-> "VarBoundMod", var |-> v, lu |-> lu, newVal |-> val,
   oldVal |-> IF prob = "p"
              THEN (IF lu = "Lower" THEN S.pLb[v] ELSE S.pUb[v])
              ELSE (IF lu = "Lower" THEN S.rLb[v] ELSE S.rUb[v])]

\* new VarBoundMod2(v, lb, ub)
VarBoundMod2(S, prob, v, lb, ub) ==
  [kind |-> "VarBoundMod2", var |-> v, newLb |-> lb, newUb |-> ub,
   oldLb |-> IF prob = "p" THEN S.pLb[v] ELSE S.rLb[v],
   oldUb |-> IF prob = "p" THEN S.pUb[v] ELSE S.rUb[v]]

\* new LinConMod(con, lf, -INFINITY, rhs)
LinConMod(S, con, lf, rhs) ==
  [kind |-> "LinConMod", con |-> con, newLf |-> lf, newUb |-> rhs,
   oldLf |-> S.rCons[con].lf, oldUb |-> S.rCons[con].ub]

\* Problem::changeBound(var, lu, new_val) and changeBound(var, new_lb, new_ub)
changeBound(S, prob, v, lu, val) ==
  IF prob = "p"
  THEN (IF lu = "Lower" THEN [S EXCEPT !.pLb[v] = val] ELSE [S EXCEPT !.pUb[v] = val])
  ELSE (IF lu = "Lower" THEN [S EXCEPT !.rLb[v] = val] ELSE [S EXCEPT !.rUb[v] = val])

changeBound2(S, prob, v, lb, ub) ==
  IF prob = "p"
  THEN [S EXCEPT !.pLb[v] = lb, !.pUb[v] = ub]
  ELSE [S EXCEPT !.rLb[v] = lb, !.rUb[v] = ub]

\* Problem::changeConstraint(con, lf, lb, ub)
changeConstraint(S, con, lf, ub) ==
  [S EXCEPT !.rCons[con] = [lf |-> lf, ub |-> ub]]

\* Modification::applyToProblem
applyToProblem(S, prob, m) ==
  CASE m.kind = "VarBoundMod"  -> changeBound(S, prob, m.var, m.lu, m.newVal)
    [] m.kind = "VarBoundMod2" -> changeBound2(S, prob, m.var, m.newLb, m.newUb)
    [] m.kind = "LinConMod"    -> changeConstraint(S, m.con, m.newLf, m.newUb)

\* Modification::undoToProblem
undoToProblem(S, prob, m) ==
  CASE m.kind = "VarBoundMod"  -> changeBound(S, prob, m.var, m.lu, m.oldVal)
    [] m.kind = "VarBoundMod2" -> changeBound2(S, prob, m.var, m.oldLb, m.oldUb)
    [] m.kind = "LinConMod"    -> changeConstraint(S, m.con, m.oldLf, m.oldUb)

---------------------------------------------------------------------------
(* Bound propagation *)

\* updatePBounds_(v, lb, ub, changed): the overload of the root presolve
updatePBounds_(S, v, lb, ub) ==
  IF LtTol(ub, S.pLb[v], aTol(v)) \/ GtTol(lb, S.pUb[v], aTol(v))
  THEN [s |-> S, r |-> -1]
  ELSE LET up == LtTol(ub, S.pUb[v], aTol(v))
           lo == GtTol(lb, S.pLb[v], aTol(v))
           S1 == IF up THEN [changeBound(S, "p", v, "Upper", ub) EXCEPT !.changed = TRUE]
                 ELSE S
           S2 == IF lo THEN [changeBound(S1, "p", v, "Lower", lb) EXCEPT !.changed = TRUE]
                 ELSE S1
       IN  [s |-> S2, r |-> 0]

\* a modification applied to p_ and pushed on p_mods, and (mod_rel) its twin
\* applied to rel and pushed on r_mods
RecordBoth(S, mp, mr) ==
  LET S1 == applyToProblem(S, "p", mp)
      S2 == [S1 EXCEPT !.p_mods = Append(@, mp)]
      S3 == applyToProblem(S2, "rel", mr)
  IN  [S3 EXCEPT !.r_mods = Append(@, mr)]

\* updatePBounds_(v, lb, ub, rel, mod_rel, changed, p_mods, r_mods): the
\* overload of presolveNode
updatePBounds_node(S, v, lb, ub) ==
  IF GtTol(lb, S.pUb[v], aTol(v)) \/ LtTol(ub, S.pLb[v], aTol(v))
  THEN [s |-> S, r |-> -1]
  ELSE IF GtTol(lb, S.pLb[v], aTol(v)) /\ LtTol(ub, S.pUb[v], aTol(v))
  THEN [s |-> [RecordBoth(S, VarBoundMod2(S, "p", v, lb, ub),
                             VarBoundMod2(S, "rel", v, lb, ub))
               EXCEPT !.changed = TRUE],
        r |-> 0]
  ELSE IF GtTol(lb, S.pLb[v], aTol(v))
  THEN [s |-> [RecordBoth(S, VarBoundMod(S, "p", v, "Lower", lb),
                             VarBoundMod(S, "rel", v, "Lower", lb))
               EXCEPT !.changed = TRUE],
        r |-> 0]
  ELSE IF LtTol(ub, S.pUb[v], aTol(v))
  THEN [s |-> RecordBoth(S, VarBoundMod(S, "p", v, "Upper", ub),
                            VarBoundMod(S, "rel", v, "Upper", ub)),
        r |-> 0]
  ELSE [s |-> S, r |-> 0]

\* the backward step as it would be without the sqrt of y's upper bound
SqrBackward_noSqrt(xlb, ylb, yub) ==
  [lb |-> IF ylb >= 0 /\ xlb > -Sqrt(ylb) + aTolX THEN Sqrt(ylb) ELSE -yub,
   ub |-> yub]

\* the backward step as it would be with y's lower bound under the sqrt
\* of the upper end
SqrBackward_lbForUb(xlb, ylb, yub) ==
  LET ub == IF ylb >= 0 THEN Sqrt(ylb) ELSE Sqrt(yub)
  IN  [lb |-> IF ylb >= 0 /\ xlb > -Sqrt(ylb) + aTolX THEN Sqrt(ylb) ELSE -ub,
       ub |-> ub]

\* The interval proposed for x by the backward step of propSqrBnds_ when
\* y.ub > aTol_.  (With y.lb < 0 the sqrt is NaN and the comparison false.)
SqrBackward(xlb, ylb, yub) ==
  LET ub == Sqrt(yub)
  IN  [lb |-> IF ylb >= 0 /\ xlb > -Sqrt(ylb) + aTolX THEN Sqrt(ylb) ELSE -ub,
       ub |-> ub]

\* "if (upd < 0) return true;" after a call of updatePBounds_, else go on
ThenU(u, K(_)) == IF u.r < 0 THEN [s |-> u.s, inf |-> TRUE] ELSE K(u.s)

\* "return (upd < 0);" after the last call of updatePBounds_
LastU(u) == [s |-> u.s, inf |-> u.r < 0]

\* propSqrBnds_(lx2, changed): root presolve.  Returns the store and is_inf.
propSqrBnds_(S, t) ==
  LET b == BoundsOnSquare(S.pLb[t.x], S.pUb[t.x])
  IN  ThenU(updatePBounds_(S, t.y, b.lb, b.ub), LAMBDA S1 :
        IF S1.pUb[t.y] > aTolY
        THEN LET q == SqrBackward(S1.pLb[t.x], S1.pLb[t.y], S1.pUb[t.y])
             IN  LastU(updatePBounds_(S1, t.x, q.lb, q.ub))
        ELSE IF S1.pUb[t.y] < -aTolY THEN [s |-> S1, inf |-> TRUE]
        ELSE LastU(updatePBounds_(S1, t.x, 0, 0)))

\* propSqrBnds_(lx2, rel, mod_rel, changed, p_mods, r_mods): presolveNode
propSqrBnds_node(S, t) ==
  LET b == BoundsOnSquare(S.pLb[t.x], S.pUb[t.x])
  IN  ThenU(updatePBounds_node(S, t.y, b.lb, b.ub), LAMBDA S1 :
        IF S1.pUb[t.y] > aTolY
        THEN LET q == SqrBackward(S1.pLb[t.x], S1.pLb[t.y], S1.pUb[t.y])
             IN  LastU(updatePBounds_node(S1, t.x, q.lb, q.ub))
        ELSE IF S1.pUb[t.x] < -aTolX THEN [s |-> S1, inf |-> TRUE]
        ELSE LastU(updatePBounds_node(S1, t.x, 0, 0)))

\* propBilBnds_(lx0x1, changed): root presolve
propBilBnds_(S, t) ==
  LET b == BoundsOnProduct(S.pLb[t.x0], S.pUb[t.x0], S.pLb[t.x1], S.pUb[t.x1])
  IN  ThenU(updatePBounds_(S, t.y, b.lb, b.ub), LAMBDA S1 :
        LET d1 == BoundsOnDiv(S1.pLb[t.y], S1.pUb[t.y], S1.pLb[t.x0], S1.pLb[t.x0])
        IN  ThenU(updatePBounds_(S1, t.x1, d1.lb, d1.ub), LAMBDA S2 :
              LET d0 == BoundsOnDiv(S2.pLb[t.y], S2.pUb[t.y], S2.pLb[t.x1], S2.pLb[t.x1])
              IN  LastU(updatePBounds_(S2, t.x0, d0.lb, d0.ub))))

\* propBilBnds_(lx0x1, rel, mod_rel, changed, p_mods, r_mods): presolveNode
propBilBnds_node(S, t) ==
  LET b == BoundsOnProduct(S.pLb[t.x0], S.pUb[t.x0], S.pLb[t.x1], S.pUb[t.x1])
  IN  ThenU(updatePBounds_node(S, t.y, b.lb, b.ub), LAMBDA S1 :
        LET d1 == BoundsOnDiv(S1.pLb[t.y], S1.pUb[t.y], S1.pLb[t.x0], S1.pLb[t.x0])
        IN  ThenU(updatePBounds_node(S1, t.x1, d1.lb, d1.ub), LAMBDA S2 :
              LET d0 == BoundsOnDiv(S2.pLb[t.y], S2.pUb[t.y], S2.pLb[t.x0], S2.pLb[t.x0])
              IN  LastU(updatePBounds_node(S2, t.x0, d0.lb, d0.ub))))

---------------------------------------------------------------------------
(* Envelopes.  A linear function is the weight of every variable (0 when   *)
(* the variable has no term); a constraint of the relaxation is lf <= ub.  *)

ZeroLf == [v \in Vars |-> 0]

\* LinearFunction::addTerm
addTerm(lf, v, a) == [lf EXCEPT ![v] = a]

\* getNewBilLf_ as it would be with rhs = -ub0*ub1 in case 3
getNewBilLf_rhs3(x0, lb0, ub0, x1, lb1, ub1, y, type) ==
  CASE type = 0 -> [lf  |-> addTerm(addTerm(addTerm(ZeroLf, x1, lb0), x0, lb1), y, -1),
                    rhs |-> Times(lb0, lb1)]
    [] type = 1 -> [lf  |-> addTerm(addTerm(addTerm(ZeroLf, x1, ub0), x0, ub1), y, -1),
                    rhs |-> Times(ub0, ub1)]
    [] type = 2 -> [lf  |-> addTerm(addTerm(addTerm(ZeroLf, x0, -ub1), x1, -lb0), y, 1),
                    rhs |-> Neg(Times(lb0, ub1))]
    [] type = 3 -> [lf  |-> addTerm(addTerm(addTerm(ZeroLf, x0, -lb1), x1, -ub0), y, 1),
                    rhs |-> Neg(Times(ub0, ub1))]

\* getNewBilLf_(x0, lb0, ub0, x1, lb1, ub1, y, type, rhs)
getNewBilLf_(x0, lb0, ub0, x1, lb1, ub1, y, type) ==
  CASE type = 0 -> [lf  |-> addTerm(addTerm(addTerm(ZeroLf, x1, lb0), x0, lb1), y, -1),
                    rhs |-> Times(lb0, lb1)]
    [] type = 1 -> [lf  |-> addTerm(addTerm(addTerm(ZeroLf, x1, ub0), x0, ub1), y, -1),
                    rhs |-> Times(ub0, ub1)]
    [] type = 2 -> [lf  |-> addTerm(addTerm(addTerm(ZeroLf, x0, -ub1), x1, -lb0), y, 1),
                    rhs |-> Neg(Times(lb0, ub1))]
    [] type = 3 -> [lf  |-> addTerm(addTerm(addTerm(ZeroLf, x0, -lb1), x1, -ub0), y, 1),
                    rhs |-> Neg(Times(ub0, lb1))]

\* getNewSqLf_(x, y, lb, ub, r)
getNewSqLf_(x, y, lb, ub) ==
  IF Abs(ub + lb) > aTolX
  THEN [lf |-> addTerm(addTerm(ZeroLf, y, 1), x, -(ub + lb)), rhs |-> -(ub * lb)]
  ELSE [lf |-> addTerm(ZeroLf, y, 1), rhs |-> -(ub * lb)]

\* Problem::newConstraint(f, -INFINITY, ub) on the relaxation
newConstraint(S, lf, ub) ==
  [S EXCEPT !.rCons = Append(@, [lf |-> lf, ub |-> ub])]

\* RecordLinCon as it would be without r_mods.push_back(lmod)
RecordLinCon_unrecorded(S, con, e) ==
  applyToProblem(S, "rel", LinConMod(S, con, e.lf, e.rhs))

\* a LinConMod built, applied to rel and pushed on r_mods
RecordLinCon(S, con, e) ==
  LET m == LinConMod(S, con, e.lf, e.rhs)
  IN  [applyToProblem(S, "rel", m) EXCEPT !.r_mods = Append(@, m)]

\* upSqCon_ as it would be if it never rewrote the secant
upSqCon_never(S, t) == S

\* upSqCon_(con, x, y, rel, r_mods)
upSqCon_(S, t) ==
  LET con == S.rCons[t.oeCon]
      a_x == con.lf[t.x]
      lb  == S.rLb[t.x]
      ub  == S.rUb[t.x]
  IN  IF \/ lb * lb + a_x * lb < con.ub - aTolY
         \/ ub * ub + a_x * ub < con.ub - aTolY
      THEN RecordLinCon(S, t.oeCon, getNewSqLf_(t.x, t.y, lb, ub))
      ELSE S

\* the test of upBilCon_ on one envelope: the three corners at which it
\* is binding, with the sign sg of the product term
BilStale(S, c, x0, x1, k0, k1, k2, sg) ==
  LET con == S.rCons[c]
      a0  == con.lf[x0]
      a1  == con.lf[x1]
  IN  \/ a0 * k0[1] + a1 * k0[2] + sg * k0[3] < con.ub - aTolY
      \/ a0 * k1[1] + a1 * k1[2] + sg * k1[3] < con.ub - aTolY
      \/ a0 * k2[1] + a1 * k2[2] + sg * k2[3] < con.ub - aTolY

\* upBilCon_(lx0x1, rel, r_mods): the block of one envelope; k0, k1, k2
\* are the corners tested, each with the product the code writes for it
upBilOne(S, t, c, type, k0, k1, k2, sg) ==
  IF BilStale(S, c, t.x0, t.x1, k0, k1, k2, sg)
  THEN RecordLinCon(S, c, getNewBilLf_(t.x0, S.rLb[t.x0], S.rUb[t.x0],
                                       t.x1, S.rLb[t.x1], S.rUb[t.x1], t.y, type))
  ELSE S

upBilC0(S, t, l0, u0, l1, u1) ==
  upBilOne(S, t, t.c0, 0, <<l0, l1, l0 * l1>>, <<l0, u1, l0 * u1>>, <<u0, l1, u0 * l1>>, -1)
upBilC1(S, t, l0, u0, l1, u1) ==
  upBilOne(S, t, t.c1, 1, <<l0, u1, l0 * u1>>, <<u0, l1, u0 * l1>>, <<u0, u1, u0 * u1>>, -1)
upBilC2(S, t, l0, u0, l1, u1) ==
  upBilOne(S, t, t.c2, 2, <<l0, l1, l0 * l1>>, <<l0, u1, l0 * u1>>, <<u0, u1, u0 * l1>>, 1)
upBilC3(S, t, l0, u0, l1, u1) ==
  upBilOne(S, t, t.c3, 3, <<l0, l1, l0 * l1>>, <<u0, l1, u0 * l1>>, <<u0, u1, u0 * u1>>, 1)

\* upBilCon_(lx0x1, rel, r_mods)
upBilCon_(S, t) ==
  LET l0 == S.rLb[t.x0]
      u0 == S.rUb[t.x0]
      l1 == S.rLb[t.x1]
      u1 == S.rUb[t.x1]
  IN  upBilC3(upBilC2(upBilC1(upBilC0(S, t, l0, u0, l1, u1),
                              t, l0, u0, l1, u1), t, l0, u0, l1, u1), t, l0, u0, l1, u1)

---------------------------------------------------------------------------
(* The handler's entry points.  sq is x2Funs_, bl is x0x1Funs_.            *)

\* relax_: the secant of every LinSqr, recorded in oeCon
RECURSIVE relaxSq(_, _, _)
relaxSq(S, sq, i) ==
  IF i > Len(sq) THEN [s |-> S, sq |-> sq]
  ELSE LET t  == sq[i]
           e  == getNewSqLf_(t.x, t.y, S.rLb[t.x], S.rUb[t.x])
           S1 == newConstraint(S, e.lf, e.rhs)
       IN  relaxSq(S1, [sq EXCEPT ![i].oeCon = Len(S1.rCons)], i + 1)

\* relax_: the four envelopes of every LinBil, recorded by setCons
RECURSIVE relaxBil(_, _, _)
relaxBil(S, bl, i) ==
  IF i > Len(bl) THEN [s |-> S, bl |-> bl]
  ELSE LET t  == bl[i]
           E(k) == getNewBilLf_(t.x0, S.rLb[t.x0], S.rUb[t.x0],
                                t.x1, S.rLb[t.x1], S.rUb[t.x1], t.y, k)
           S0 == newConstraint(S, E(0).lf, E(0).rhs)
           S1 == newConstraint(S0, E(1).lf, E(1).rhs)
           S2 == newConstraint(S1, E(2).lf, E(2).rhs)
           S3 == newConstraint(S2, E(3).lf, E(3).rhs)
           n  == Len(S.rCons)
       IN  relaxBil(S3, [bl EXCEPT ![i].c0 = n + 1, ![i].c1 = n + 2,
                                   ![i].c2 = n + 3, ![i].c3 = n + 4], i + 1)

\* getNewSqLf_: assert (lb > -1e21 && ub < 1e21) for every LinSqr
SqBounded(S, sq) ==
  \A i \in DOMAIN sq : S.rLb[sq[i].x] # -INFINITY /\ S.rUb[sq[i].x] # INFINITY

\* relax_(rel, is_inf)
relax_(S, sq, bl) ==
  LET a == relaxSq(S, sq, 1)
      b == relaxBil(a.s, bl, 1)
  IN  [s |-> b.s, sq |-> a.sq, bl |-> b.bl]

\* "if (is_inf) return true;" after a propagation call, else go on
Then(r, K(_)) == IF r.inf THEN r ELSE K(r.s)

\* varBndsFromCons_(changed): one sweep of the root presolve
RECURSIVE sweepSq(_, _, _)
sweepSq(S, sq, i) ==
  IF i > Len(sq) THEN [s |-> S, inf |-> FALSE]
  ELSE Then(propSqrBnds_(S, sq[i]), LAMBDA S1 : sweepSq(S1, sq, i + 1))

RECURSIVE sweepBil(_, _, _)
sweepBil(S, bl, i) ==
  IF i > Len(bl) THEN [s |-> S, inf |-> FALSE]
  ELSE Then(propBilBnds_(S, bl[i]), LAMBDA S1 : sweepBil(S1, bl, i + 1))

varBndsFromCons_(S, sq, bl) ==
  Then(sweepSq(S, sq, 1), LAMBDA S1 : sweepBil(S1, bl, 1))

\* presolve: the status returned for is_inf
PresolveStatus(r) ==
  [s |-> r.s, inf |-> r.inf,
   status |-> IF r.inf THEN "SolvedInfeasible" ELSE "Finished"]

\* presolve(PreModQ, changed)
presolve(S, sq, bl) ==
  PresolveStatus(varBndsFromCons_([S EXCEPT !.changed = FALSE], sq, bl))

\* presolveNode: the two for-loops of one pass of the while loop
RECURSIVE sweepSqNode(_, _, _)
sweepSqNode(S, sq, i) ==
  IF i > Len(sq) THEN [s |-> S, inf |-> FALSE]
  ELSE Then(propSqrBnds_node(S, sq[i]), LAMBDA S1 : sweepSqNode(S1, sq, i + 1))

RECURSIVE sweepBilNode(_, _, _)
sweepBilNode(S, bl, i) ==
  IF i > Len(bl) THEN [s |-> S, inf |-> FALSE]
  ELSE Then(propBilBnds_node(S, bl[i]), LAMBDA S1 : sweepBilNode(S1, bl, i + 1))

\* presolveNode: while (true==changed) { lchanged = false; ... }, where a
\* pass sets changed when lchanged is set and nothing resets changed
RECURSIVE presolveLoop(_, _, _, _)
presolveLoop(S, sq, bl, changed) ==
  IF changed
  THEN Then(sweepSqNode([S EXCEPT !.changed = FALSE], sq, 1), LAMBDA S1 :
         Then(sweepBilNode(S1, bl, 1), LAMBDA S2 : presolveLoop(S2, sq, bl, TRUE)))
  ELSE [s |-> S, inf |-> FALSE]

RECURSIVE upSqCons(_, _, _)
upSqCons(S, sq, i) ==
  IF i > Len(sq) THEN S ELSE upSqCons(upSqCon_(S, sq[i]), sq, i + 1)

RECURSIVE upBilCons(_, _, _)
upBilCons(S, bl, i) ==
  IF i > Len(bl) THEN S ELSE upBilCons(upBilCon_(S, bl[i]), bl, i + 1)

\* presolveNode after the while loop: the refresh of the envelopes
presolveEnd(r, sq, bl) ==
  IF r.inf THEN [s |-> r.s, inf |-> TRUE]
  ELSE [s |-> upBilCons(upSqCons(r.s, sq, 1), bl, 1), inf |-> FALSE]

\* presolveNode(rel, node, s_pool, p_mods, r_mods): lchanged = true and
\* changed = false before the loop
presolveNode(S, sq, bl) == presolveEnd(presolveLoop(S, sq, bl, FALSE), sq, bl)

\* rTol_ = 1e-4 as the divisor 1/rTol_
rTolInv == 10000
\* the 1e-6 added to |yval| in isFeasible, in units of 1e-10
Eps6Y == 10000

\* the test of a square term as it would be without the 1e-6
SqrRejected_noEps(xval, yval) ==
  /\ Abs(yval - xval * xval) > Abs(yval) \div rTolInv
  /\ Abs(yval - xval * xval) > aTolY

\* isFeasible: the test that rejects a square term,
\* fabs(yval - xval*xval)/(fabs(yval) + 1e-6) > 1e-4 && fabs(yval - xval*xval) > 1e-5
SqrRejected(xval, yval) ==
  /\ Abs(yval - xval * xval) > (Abs(yval) + Eps6Y) \div rTolInv
  /\ Abs(yval - xval * xval) > aTolY

\* LinBil::isViolated(x)
isViolated(t, x) ==
  LET xval == x[t.x0] * x[t.x1]
      yval == x[t.y]
  IN  Abs(xval - yval) > aTolY /\ Abs(xval - yval) > Abs(yval) \div rTolInv

\* isFeasible(sol, rel, should_prune)
isFeasible(x, sq, bl) ==
  /\ \A i \in DOMAIN sq : ~SqrRejected(x[sq[i].x], x[sq[i].y])
  /\ \A i \in DOMAIN bl : ~isViolated(bl[i], x)

\* getBranchingCandidates: (yval - x0val*x0val)/(fabs(yval)+1e-6) > 1e-4
SqrCand(t, x) == x[t.y] - x[t.x] * x[t.x] > (Abs(x[t.y]) + Eps6Y) \div rTolInv

\* isAtBnds_ as it would be if it never found a value at a bound
isAtBnds_never(S, v, xval) == FALSE

\* isAtBnds_(x, xval), x a variable of the relaxation
isAtBnds_(S, v, xval) == Abs(xval - S.rLb[v]) < aTolX \/ Abs(xval - S.rUb[v]) < aTolX

\* getBranchingCandidates: the operands a bilinear term inserts in cands
BilCands(S, t, x) ==
  IF isViolated(t, x)
  THEN {v \in {t.x0, t.x1} : ~isAtBnds_(S, v, x[v])}
  ELSE {}

\* getBranchingCandidates(rel, x, mods, cands, gencands, is_inf): the
\* variables of cands
getBranchingCandidates(S, x, sq, bl) ==
  {sq[i].x : i \in {j \in DOMAIN sq : SqrCand(sq[j], x)}}
    \cup UNION {BilCands(S, bl[i], x) : i \in DOMAIN bl}

\* getBranches: the assertion that the value is not at a bound of the
\* relaxation variable (1e-8 is a thousandth of a unit)
CanBranch(S, v, value) ==
  /\ 1000 * value > 1000 * S.rLb[v] + 1
  /\ 1000 * value < 1000 * S.rUb[v] - 1

\* getBranches with modRel_ false: no modification of the relaxation
getBranches_noRel(S, v, value) ==
  << [pmods |-> <<VarBoundMod(S, "p", v, "Upper", value)>>, rmods |-> <<>>],
     [pmods |-> <<VarBoundMod(S, "p", v, "Lower", value)>>, rmods |-> <<>>] >>

\* getBranches(cand, x, rel, s_pool): the down branch and the up branch
getBranches(S, v, value) ==
  << [pmods |-> <<VarBoundMod(S, "p", v, "Upper", value)>>,
      rmods |-> <<VarBoundMod(S, "rel", v, "Upper", value)>>],
     [pmods |-> <<VarBoundMod(S, "p", v, "Lower", value)>>,
      rmods |-> <<VarBoundMod(S, "rel", v, "Lower", value)>> ] >>

\* new SecantMod(cons, lf, rhs, x0, lu, b2, y), lf null and rhs 0
SecantMod(con, x, lu, b2, y) ==
  [kind |-> "SecantMod", con |-> con, var |-> x, lu |-> lu, newVal |-> b2, y |-> y]

\* LinMods::insert at the front of the list
insert_front(lmods, m) == <<m>> \o lmods
\* LinMods::insert(m)
insert(lmods, m) == Append(lmods, m)

\* LinBil::getOtherX(x) of a term that has x as an operand
getOtherX(t, x) == IF t.x0 = x THEN t.x1 ELSE t.x0

\* getBrMod: the loop over x0x1Funs_; every term that contains x0 starts a
\* new LinMods and inserts the bounds of its y for the box [lb, ub] of x0
RECURSIVE brBilMods(_, _, _, _, _, _, _)
brBilMods(S, bl, x0, lb, ub, lmods, i) ==
  IF i > Len(bl) THEN lmods
  ELSE IF x0 \in {bl[i].x0, bl[i].x1}
       THEN LET x1 == getOtherX(bl[i], x0)
                b  == BoundsOnProduct(lb, ub, S.rLb[x1], S.rUb[x1])
            IN  brBilMods(S, bl, x0, lb, ub,
                          insert(<<>>, VarBoundMod2(S, "rel", bl[i].y, b.lb, b.ub)),
                          i + 1)
       ELSE brBilMods(S, bl, x0, lb, ub, lmods, i + 1)

\* getBrMod(cand, xval, rel, dir): the modification of the branch of x0 in
\* the direction dir at the value xval[x0]
getBrMod(S, sq, bl, x0, value, dir) ==
  LET lb == IF dir = "DownBranch" THEN S.rLb[x0] ELSE value
      ub == IF dir = "DownBranch" THEN value ELSE S.rUb[x0]
      b2 == value
      lu == IF dir = "DownBranch" THEN "Upper" ELSE "Lower"
  IN  IF \E i \in DOMAIN sq : sq[i].x = x0
      THEN LET t == sq[CHOOSE i \in DOMAIN sq : sq[i].x = x0]
           IN  SecantMod(t.oeCon, x0, lu, b2, t.y)
      ELSE [kind |-> "LinMods",
            mods |-> insert(brBilMods(S, bl, x0, lb, ub, <<>>, 1),
                            VarBoundMod(S, "rel", x0, lu, b2))]

\* x*x > (1 + 1e-4) * |y| for integers x*x and y
ExceedsRel(xx, y) == xx - Abs(y) > Abs(y) \div 10000

\* separate: the test that sends a square term to findLinPt_
SepaViolated(xval, yval) ==
  /\ ExceedsRel(xval * xval, yval)
  /\ Abs(xval * xval - yval) > 100000

\* findLinPt_(xval, yval, xl, yl): the golden section search ends at a
\* point of its first bracket [sqrt(yval), xval] or [xval, -sqrt(yval)];
\* which one is left open.  With yval < 0 the sqrt is NaN, and so is xl.
InBracket(xval, yval, xl) ==
  IF xval > 0 THEN xl >= 0 /\ xl * xl >= yval /\ xl <= xval
  ELSE xl <= 0 /\ xl * xl >= yval /\ xl >= xval

\* addCut_ without its test of the violation
AddsCut_untested(xl, xval, yval) == TRUE

\* addCut_(x, y, xl, yl, xval, yval, rel, ifcuts), yl = xl*xl
AddsCut(xl, xval, yval) ==
  /\ 2 * xl * xval - yval - xl * xl > 100000
  /\ ExceedsRel(2 * xl * xval - yval, xl * xl)

addCut_(S, x, y, xl, xval, yval) ==
  IF AddsCut(xl, xval, yval)
  THEN [s |-> newConstraint(S, addTerm(addTerm(ZeroLf, x, 2 * xl), y, -1), xl * xl),
        ifcuts |-> TRUE]
  ELSE [s |-> S, ifcuts |-> FALSE]

\* separate(sol, node, rel, cutman, s_pool, sol_found, status); xls[i] is
\* the point findLinPt_ returns for the i-th square term
RECURSIVE separate(_, _, _, _, _, _)
separate(S, sq, x, xls, status, i) ==
  IF i > Len(sq) THEN [s |-> S, status |-> status]
  ELSE LET t    == sq[i]
           xval == x[t.x]
           yval == x[t.y]
       IN  IF SepaViolated(xval, yval) /\ yval >= 0
           THEN LET c == addCut_(S, t.x, t.y, xls[i], xval, yval)
                IN  separate(c.s, sq, x, xls,
                             IF c.ifcuts THEN "SepaResolve" ELSE status, i + 1)
           ELSE separate(S, sq, x, xls, status, i + 1)

---------------------------------------------------------------------------
(* The terms of the modelled problem, as addConstraint records them, and   *)
(* the Problem container left empty where a specification does not use it. *)

LinSqr0 == [x |-> X0, y |-> YS, oeCon |-> 0]
LinBil0 == [x0 |-> X0, x1 |-> X1, y |-> YB, c0 |-> 0, c1 |-> 0, c2 |-> 0, c3 |-> 0]

NoRet == [op |-> "none", inf |-> FALSE, changed |-> FALSE, status |-> "none", out |-> <<>>]
Ret(op, inf, changed, status) ==
  [op |-> op, inf |-> inf, changed |-> changed, status |-> status, out |-> <<>>]

\* a call that hands back a collection (candidates, modifications)
RetOut(op, inf, out) ==
  [op |-> op, inf |-> inf, changed |-> FALSE, status |-> "none", out |-> out]

NoSol == [v \in Vars |-> 0]
NoSnap == [depth |-> 0]

\* no call received by an engine yet
NoCall == [op |-> "none"]

\* obj_ null: no objective
NoObj == [f |-> 0, neg |-> FALSE]

\* a Problem whose bounds, functions and objective play no part
DetailIdle ==
  /\ vbnd = <<>> /\ vcons = <<>> /\ cfun = <<>> /\ cbnd = <<>>
  /\ obj_ = NoObj /\ engineSaw = NoCall

ContainerIdle ==
  /\ vars_ = <<>> /\ cons_ = <<>> /\ nextVId_ = 0 /\ nextCId_ = 0
  /\ numDVars_ = 0 /\ numDCons_ = 0 /\ engine_ = FALSE
  /\ DetailIdle

Boxes(S) == {b \in [lb : S, ub : S] : b.lb <= b.ub}

\* the widest box of every variable
WideLb == (X0 :> -20000) @@ (X1 :> -20000) @@ (YS :> 0) @@ (YB :> -400000000)
WideUb == (X0 :> 20000) @@ (X1 :> 20000) @@ (YS :> 400000000) @@ (YB :> 400000000)

\* The store a handler call starts from, and the state it leaves
CurStore == Store(pLb, pUb, rLb, rUb, rCons)

---------------------------------------------------------------------------
(* Spec: branch and bound over one square term ys = x0^2 and one bilinear  *)
(* term yb = x0*x1.  The tree manager applies a branch's modifications,    *)
(* keeps them with those presolveNode reports, and undoes them in reverse  *)
(* order when it leaves the node.                                          *)

\* how deep the tree is explored, and how many cuts separate may add
MaxDepth == 2
MaxCuts == 2

\* the boxes the solve starts from: <<x0, x1, ys, yb>>, each <<lb, ub>>
InitBoxes ==
  { << <<-20000, 20000>>,  <<0, 15000>>,      <<0, 400000000>>,  <<-400000000, 400000000>> >>,
    << <<-20000, -10000>>, <<0, 15000>>,      <<0, 400000000>>,  <<-400000000, 400000000>> >>,
    << <<0, 200>>,         <<-10000, 20000>>, <<0, 400000000>>,  <<-400000000, 400000000>> >>,
    << <<-200, 201>>,      <<-10000, 20000>>, <<0, 400000000>>,  <<-400000000, 400000000>> >>,
    << <<10000, 20000>>,   <<0, 15000>>,      <<-100000000, 0>>, <<-400000000, 400000000>> >> }

\* the points the engine may return: values of x0, x1, ys, yb
SolX0 == {-10000, 100, 5000}
SolX1 == {5000, 10000}
SolYS == {0, 100000000}
SolYB == {-100000000, 0}
\* the points findLinPt_ may return
LinPts == {0, 100, 4975, 5000}

Init ==
  /\ \E b \in InitBoxes :
       /\ pLb = (X0 :> b[1][1]) @@ (X1 :> b[2][1]) @@ (YS :> b[3][1]) @@ (YB :> b[4][1])
       /\ pUb = (X0 :> b[1][2]) @@ (X1 :> b[2][2]) @@ (YS :> b[3][2]) @@ (YB :> b[4][2])
  /\ rLb = pLb /\ rUb = pUb
  /\ rCons = <<>>
  /\ x2Funs = <<LinSqr0>> /\ x0x1Funs = <<LinBil0>>
  /\ sol = NoSol
  /\ frames = <<>>
  /\ pc = "start"
  /\ ret = NoRet
  /\ restored = NoSnap
  /\ ContainerIdle

\* what a node is restored to: every bound and every constraint
Snapshot == [pLb |-> pLb, pUb |-> pUb, rLb |-> rLb, rUb |-> rUb, rCons |-> rCons]

RECURSIVE applyMods(_, _, _, _)
applyMods(S, prob, mods, i) ==
  IF i > Len(mods) THEN S
  ELSE applyMods(applyToProblem(S, prob, mods[i]), prob, mods, i + 1)

RECURSIVE undoMods(_, _, _, _)
undoMods(S, prob, mods, i) ==
  IF i = 0 THEN S
  ELSE undoMods(undoToProblem(S, prob, mods[i]), prob, mods, i - 1)

\* the handler's presolve of the original problem, before the relaxation exists
Presolve ==
  /\ pc = "start"
  /\ ret.op = "none"
  /\ LET r == presolve(CurStore, x2Funs, x0x1Funs)
     IN  /\ pLb' = r.s.pLb /\ pUb' = r.s.pUb
         /\ rLb' = r.s.pLb /\ rUb' = r.s.pUb
         /\ ret' = Ret("presolve", r.inf, r.s.changed, r.status)
         /\ pc' = IF r.inf THEN "infeasible" ELSE "start"
  /\ UNCHANGED <<rCons, x2Funs, x0x1Funs, sol, frames, restored>>
  /\ UNCHANGED cvars

\* Relaxation(p_) followed by relaxInitFull or relaxInitInc
RelaxInit ==
  /\ pc = "start"
  /\ SqBounded(Store(pLb, pUb, pLb, pUb, <<>>), x2Funs)
  /\ \E op \in {"relaxInitFull", "relaxInitInc"} :
       LET r == relax_(Store(pLb, pUb, pLb, pUb, <<>>), x2Funs, x0x1Funs)
       IN  /\ rLb' = pLb /\ rUb' = pUb
           /\ rCons' = r.s.rCons
           /\ x2Funs' = r.sq /\ x0x1Funs' = r.bl
           /\ ret' = Ret(op, FALSE, FALSE, "none")
  /\ pc' = "fresh"
  /\ UNCHANGED <<pLb, pUb, sol, frames, restored>>
  /\ UNCHANGED cvars

\* presolveNode at the current node; its modifications join the node's
PresolveNode ==
  /\ pc = "fresh"
  /\ LET r == presolveNode(CurStore, x2Funs, x0x1Funs)
         n == Len(frames)
     IN  /\ pLb' = r.s.pLb /\ pUb' = r.s.pUb
         /\ rLb' = r.s.rLb /\ rUb' = r.s.rUb
         /\ rCons' = r.s.rCons
         /\ frames' = IF n = 0 THEN frames
                      ELSE [frames EXCEPT ![n].p_mods = @ \o r.s.p_mods,
                                          ![n].r_mods = @ \o r.s.r_mods]
         /\ ret' = [Ret("presolveNode", r.inf, r.s.changed, "none")
                      EXCEPT !.out = [p_mods |-> r.s.p_mods, r_mods |-> r.s.r_mods]]
         /\ pc' = IF r.inf THEN "infeasible" ELSE "presolved"
  /\ restored' = NoSnap
  /\ UNCHANGED <<x2Funs, x0x1Funs, sol>>
  /\ UNCHANGED cvars

\* lf . x for a point x
Eval(lf, x) == lf[X0] * x[X0] + lf[X1] * x[X1] + lf[YS] * x[YS] + lf[YB] * x[YB]

\* the engine returns a point of the relaxation
LPFeasible(x) ==
  /\ \A v \in Vars : rLb[v] <= x[v] /\ x[v] <= rUb[v]
  /\ \A i \in DOMAIN rCons : Eval(rCons[i].lf, x) <= rCons[i].ub

Solve ==
  /\ pc = "presolved"
  /\ \E a \in SolX0, b \in SolX1, c \in SolYS, d \in SolYB :
       LET x == (X0 :> a) @@ (X1 :> b) @@ (YS :> c) @@ (YB :> d)
       IN  LPFeasible(x) /\ sol' = x
  /\ pc' = "solved"
  /\ ret' = Ret("solve", FALSE, FALSE, "none")
  /\ restored' = NoSnap
  /\ UNCHANGED <<pLb, pUb, rLb, rUb, rCons, x2Funs, x0x1Funs, frames>>
  /\ UNCHANGED cvars

\* the cuts of the relaxation: the constraints after the envelopes
NumCuts == Len(rCons) - (Len(x2Funs) + 4 * Len(x0x1Funs))

Separate ==
  /\ pc = "solved"
  /\ NumCuts < MaxCuts
  /\ \E xls \in [DOMAIN x2Funs -> LinPts] :
       /\ \A i \in DOMAIN x2Funs :
            IF SepaViolated(sol[x2Funs[i].x], sol[x2Funs[i].y]) /\ sol[x2Funs[i].y] >= 0
            THEN InBracket(sol[x2Funs[i].x], sol[x2Funs[i].y], xls[i])
            ELSE xls[i] = 0
       /\ LET r == separate(CurStore, x2Funs, sol, xls, "SepaContinue", 1)
          IN  /\ rCons' = r.s.rCons
              /\ ret' = Ret("separate", FALSE, FALSE, r.status)
              /\ pc' = IF r.status = "SepaResolve" THEN "presolved" ELSE "solved"
              /\ sol' = IF r.status = "SepaResolve" THEN NoSol ELSE sol
  /\ restored' = NoSnap
  /\ UNCHANGED <<pLb, pUb, rLb, rUb, x2Funs, x0x1Funs, frames>>
  /\ UNCHANGED cvars

\* getBranches on an operand, and the descent into one of the two branches
Branch ==
  /\ pc = "solved"
  /\ Len(frames) < MaxDepth
  /\ \E v \in {X0, X1}, k \in {1, 2} :
       /\ CanBranch(CurStore, v, sol[v])
       /\ LET brs == getBranches(CurStore, v, sol[v])
              br  == brs[k]
              S1  == applyMods(CurStore, "p", br.pmods, 1)
              S2  == applyMods(S1, "rel", br.rmods, 1)
          IN  /\ pLb' = S2.pLb /\ pUb' = S2.pUb
              /\ rLb' = S2.rLb /\ rUb' = S2.rUb
              /\ frames' = Append(frames, [p_mods |-> br.pmods, r_mods |-> br.rmods,
                                           saved |-> Snapshot])
              /\ ret' = RetOut("getBranches", FALSE,
                               [cand |-> v, value |-> sol[v], taken |-> k,
                                branches |-> brs])
  /\ pc' = "fresh"
  /\ sol' = NoSol
  /\ restored' = NoSnap
  /\ UNCHANGED <<rCons, x2Funs, x0x1Funs>>
  /\ UNCHANGED cvars

\* getBrMod on an operand, as a brancher asks for it before it decides
GetBrMod ==
  /\ pc = "solved"
  /\ \E v \in {X0, X1}, dir \in {"DownBranch", "UpBranch"} :
       ret' = RetOut("getBrMod", FALSE,
                     [cand |-> v, value |-> sol[v], dir |-> dir,
                      mod |-> getBrMod(CurStore, x2Funs, x0x1Funs, v, sol[v], dir)])
  /\ restored' = NoSnap
  /\ UNCHANGED <<pLb, pUb, rLb, rUb, rCons, x2Funs, x0x1Funs, sol, frames, pc>>
  /\ UNCHANGED cvars

\* the tree manager leaves the node: it undoes the node's modifications
Backtrack ==
  /\ pc \in {"presolved", "solved"}
  /\ Len(frames) > 0
  /\ LET f  == frames[Len(frames)]
         S1 == undoMods(CurStore, "rel", f.r_mods, Len(f.r_mods))
         S2 == undoMods(S1, "p", f.p_mods, Len(f.p_mods))
     IN  /\ pLb' = S2.pLb /\ pUb' = S2.pUb
         /\ rLb' = S2.rLb /\ rUb' = S2.rUb
         /\ rCons' = S2.rCons
         /\ restored' = [depth |-> Len(frames), saved |-> f.saved,
                         p_mods |-> f.p_mods, r_mods |-> f.r_mods]
  /\ frames' = SubSeq(frames, 1, Len(frames) - 1)
  /\ pc' = "presolved"
  /\ sol' = NoSol
  /\ ret' = Ret("undo", FALSE, FALSE, "none")
  /\ UNCHANGED <<x2Funs, x0x1Funs>>
  /\ UNCHANGED cvars

Next ==
  \/ Presolve \/ RelaxInit \/ PresolveNode \/ Solve \/ Separate
  \/ Branch \/ GetBrMod \/ Backtrack

Spec == Init /\ [][Next]_vars

---------------------------------------------------------------------------
(* Claims on the solve *)

\* the problem and the relaxation are as they were when the node was entered
SameBounds(snap) ==
  /\ pLb = snap.pLb /\ pUb = snap.pUb
  /\ rLb = snap.rLb /\ rUb = snap.rUb

\* C1 (as claimed): after descending into a branch (its modifications, then
\* presolveNode and separate) and undoing every recorded modification in
\* reverse order, every variable bound, every constraint's coefficient
\* vector and every constraint's right-hand side of the problem and the
\* relaxation are identical to what they were before the descent.
C1_Identical ==
  ret.op = "undo" => SameBounds(restored.saved) /\ rCons = restored.saved.rCons

\* C1 (amended): after the descent and the undo, every variable bound of the
\* problem and the relaxation, and the coefficient vector and right-hand
\* side of every constraint that existed before the descent, are as before
\* the descent; the cuts separate added in the node stay in the relaxation.
C1_RestoredButCuts ==
  ret.op = "undo" =>
    /\ SameBounds(restored.saved)
    /\ Len(rCons) >= Len(restored.saved.rCons)
    /\ SubSeq(rCons, 1, Len(restored.saved.rCons)) = restored.saved.rCons

\* a node has been left whose presolveNode rewrote an envelope and whose
\* separate added a cut
C1_Witness ==
  /\ ret.op = "undo"
  /\ \E i \in DOMAIN restored.r_mods : restored.r_mods[i].kind = "LinConMod"
  /\ Len(rCons) > Len(restored.saved.rCons)

\* a propagation call on the current bounds changes no bound
NoBoundChange(res) ==
  /\ res.s.pLb = pLb /\ res.s.pUb = pUb
  /\ res.s.rLb = rLb /\ res.s.rUb = rUb

\* C2: whenever presolveNode returns "not infeasible", applying propSqrBnds_
\* to any LinSqr or propBilBnds_ to any LinBil on the resulting bounds
\* changes no variable bound.
C2_FixedPoint ==
  (ret.op = "presolveNode" /\ ~ret.inf) =>
    /\ \A i \in DOMAIN x2Funs : NoBoundChange(propSqrBnds_node(CurStore, x2Funs[i]))
    /\ \A i \in DOMAIN x0x1Funs : NoBoundChange(propBilBnds_node(CurStore, x0x1Funs[i]))

\* propagation through some term proposes an interval that is disjoint, by
\* more than a_tol, from the bounds the variable has
ProposesDisjoint ==
  \/ \E i \in DOMAIN x2Funs : propSqrBnds_(CurStore, x2Funs[i]).inf
  \/ \E i \in DOMAIN x0x1Funs : propBilBnds_(CurStore, x0x1Funs[i]).inf

\* C3: if propagation through a quadratic term proposes for some variable an
\* interval disjoint from its bounds by more than a_tol, then presolveNode
\* returns true and presolve returns SolvedInfeasible.
C3_Detects ==
  [][/\ (PresolveNode /\ ProposesDisjoint) => ret'.inf
     /\ (Presolve /\ ProposesDisjoint) => ret'.status = "SolvedInfeasible"]_vars

\* the least square over [l, u]
MinSq(l, u) == IF l <= 0 /\ 0 <= u THEN 0 ELSE Min(l * l, u * u)

\* C4: in every node state for which presolveNode returned "not
\* infeasible", for every LinSqr(x,y) with x in [l,u], y.ub <= max(l^2,u^2)
\* and y.lb >= the least x^2 over [l,u]; and for every LinBil(x0,x1,y), y.lb
\* and y.ub lie between the least and the greatest corner product.
C4_YBounds ==
  (pc \in {"presolved", "solved"}) =>
    /\ \A i \in DOMAIN x2Funs :
         LET t == x2Funs[i]
             l == pLb[t.x]
             u == pUb[t.x]
         IN  pUb[t.y] <= Max(l * l, u * u) /\ pLb[t.y] >= MinSq(l, u)
    /\ \A i \in DOMAIN x0x1Funs :
         LET t == x0x1Funs[i]
             l0 == pLb[t.x0]
             u0 == pUb[t.x0]
             l1 == pLb[t.x1]
             u1 == pUb[t.x1]
         IN  /\ pLb[t.y] >= Min4(l0 * l1, l0 * u1, u0 * l1, u0 * u1)
             /\ pUb[t.y] <= Max4(l0 * l1, l0 * u1, u0 * l1, u0 * u1)

\* the McCormick inequality k of the term t for the box [l0,u0] x [l1,u1]
McCormick(t, k, l0, u0, l1, u1) ==
  CASE k = 0 -> [lf |-> (t.x0 :> l1) @@ (t.x1 :> l0) @@ (t.y :> -1) @@ ZeroLf, ub |-> l0 * l1]
    [] k = 1 -> [lf |-> (t.x0 :> u1) @@ (t.x1 :> u0) @@ (t.y :> -1) @@ ZeroLf, ub |-> u0 * u1]
    [] k = 2 -> [lf |-> (t.x0 :> -u1) @@ (t.x1 :> -l0) @@ (t.y :> 1) @@ ZeroLf, ub |-> -(l0 * u1)]
    [] k = 3 -> [lf |-> (t.x0 :> -l1) @@ (t.x1 :> -u0) @@ (t.y :> 1) @@ ZeroLf, ub |-> -(u0 * l1)]

\* the envelopes exist and presolveNode has run on the current bounds
EnvelopesCurrent ==
  \/ ret.op \in {"relaxInitFull", "relaxInitInc"}
  \/ ret.op = "presolveNode" /\ ~ret.inf

\* C5: after relaxInitFull/relaxInitInc, and after every presolveNode that
\* follows bound changes on x0 or x1, the four envelope constraints of every
\* LinBil have exactly the weights and the right-hand side of the McCormick
\* inequalities for the current box of the relaxation variables.
C5_BilEnvelopes ==
  EnvelopesCurrent =>
    \A i \in DOMAIN x0x1Funs :
      LET t == x0x1Funs[i]
          M(k) == McCormick(t, k, rLb[t.x0], rUb[t.x0], rLb[t.x1], rUb[t.x1])
      IN  /\ rCons[t.c0] = M(0) /\ rCons[t.c1] = M(1)
          /\ rCons[t.c2] = M(2) /\ rCons[t.c3] = M(3)

\* the secant of y = x^2 over [l, u]
Secant(t, l, u) == [lf |-> (t.y :> 1) @@ (t.x :> -(l + u)) @@ ZeroLf, ub |-> -(l * u)]

\* C6 (as claimed): after relaxInitFull, and after the presolveNode that
\* follows a change of x's bounds, the envelope oeCon of every LinSqr(x,y)
\* is y - (l+u)*x <= -l*u for the current box [l,u] of x in the relaxation.
C6_SecantExact ==
  EnvelopesCurrent =>
    \A i \in DOMAIN x2Funs :
      rCons[x2Funs[i].oeCon] = Secant(x2Funs[i], rLb[x2Funs[i].x], rUb[x2Funs[i].x])

\* the point (v, v^2) lies within a_tol of the line con
NearLine(con, x, v) == v * v + con.lf[x] * v >= con.ub - aTolY

\* the secant over [l, u] without the weight of x when |l+u| <= a_tol
TolSecant(t, l, u) ==
  [lf |-> (t.y :> 1) @@ (t.x :> IF Abs(l + u) > aTolX THEN -(l + u) ELSE 0) @@ ZeroLf,
   ub |-> -(l * u)]

\* C6 (amended): after relaxInitFull, and after a presolveNode that did not
\* report infeasibility, the envelope oeCon of every LinSqr(x,y) is
\* y - (l+u)*x <= -l*u for the current box [l,u] of x in the relaxation,
\* with the weight of x left out when |l+u| <= a_tol, or it is an earlier
\* secant from which (l,l^2) and (u,u^2) both lie within a_tol.
C6_SecantWithinTol ==
  EnvelopesCurrent =>
    \A i \in DOMAIN x2Funs :
      LET t == x2Funs[i]
          l == rLb[t.x]
          u == rUb[t.x]
          con == rCons[t.oeCon]
      IN  \/ con = TolSecant(t, l, u)
          \/ con.lf[t.y] = 1 /\ NearLine(con, t.x, l) /\ NearLine(con, t.x, u)

\* presolveNode has run in a child whose box of x0 differs from the box the
\* secant was written for, and has left the secant as it was
C6_Witness ==
  /\ ret.op = "presolveNode" /\ Len(frames) > 0
  /\ \E i \in DOMAIN x2Funs :
       /\ rCons[x2Funs[i].oeCon] # Secant(x2Funs[i], rLb[x2Funs[i].x], rUb[x2Funs[i].x])
       /\ rLb[x2Funs[i].x] + rUb[x2Funs[i].x] > aTolX

\* the modifications a getBrMod result is made of
ModList(m) == IF m.kind = "LinMods" THEN m.mods ELSE <<m>>

\* the box of the candidate in the branch getBrMod was asked about
BrBox(o) ==
  IF o.dir = "DownBranch" THEN [lb |-> rLb[o.cand], ub |-> o.value]
  ELSE [lb |-> o.value, ub |-> rUb[o.cand]]

\* C16: the modification getBrMod returns for a candidate contains, for
\* every LinBil the candidate is an operand of, a change of the bounds of
\* the term's y to the bounds of the product of the candidate's new box and
\* the other operand's box, also when the candidate has a LinSqr.
C16_EveryBilinearY ==
  ret.op = "getBrMod" =>
    LET o == ret.out
        l == ModList(o.mod)
    IN  \A i \in DOMAIN x0x1Funs :
          o.cand \in {x0x1Funs[i].x0, x0x1Funs[i].x1} =>
            LET t  == x0x1Funs[i]
                x1 == getOtherX(t, o.cand)
                b  == BoundsOnProduct(BrBox(o).lb, BrBox(o).ub, rLb[x1], rUb[x1])
            IN  \E j \in DOMAIN l :
                  /\ l[j].kind = "VarBoundMod2" /\ l[j].var = t.y
                  /\ l[j].newLb = b.lb /\ l[j].newUb = b.ub

\* the list is one modification of the bound lu of v to value
OneSided(mods, v, lu, value) ==
  /\ Len(mods) = 1
  /\ mods[1].kind = "VarBoundMod" /\ mods[1].var = v
  /\ mods[1].lu = lu /\ mods[1].newVal = value

\* C17: getBranches returns two branches; the first holds one change of the
\* upper bound of the candidate to the value and the second one change of
\* its lower bound, each for the original problem and for the relaxation;
\* in the branch descended into, no other bound differs from the node left.
C17_TwoOneSidedBranches ==
  ret.op = "getBranches" =>
    LET o   == ret.out
        was == frames[Len(frames)].saved
    IN  /\ Len(o.branches) = 2
        /\ OneSided(o.branches[1].pmods, o.cand, "Upper", o.value)
        /\ OneSided(o.branches[1].rmods, o.cand, "Upper", o.value)
        /\ OneSided(o.branches[2].pmods, o.cand, "Lower", o.value)
        /\ OneSided(o.branches[2].rmods, o.cand, "Lower", o.value)
        /\ IF o.taken = 1
           THEN /\ pUb = [was.pUb EXCEPT ![o.cand] = o.value]
                /\ rUb = [was.rUb EXCEPT ![o.cand] = o.value]
                /\ pLb = was.pLb /\ rLb = was.rLb
           ELSE /\ pLb = [was.pLb EXCEPT ![o.cand] = o.value]
                /\ rLb = [was.rLb EXCEPT ![o.cand] = o.value]
                /\ pUb = was.pUb /\ rUb = was.rUb

\* the down branch of x1 was descended into and cut the box of x1
C17_Witness ==
  /\ ret.op = "getBranches" /\ ret.out.cand = X1 /\ ret.out.taken = 1
  /\ rUb[X1] = ret.out.value /\ pUb[X1] = ret.out.value
  /\ rUb[X1] < frames[Len(frames)].saved.rUb[X1]

GradientCut(t, xl) ==
  [lf |-> [v \in Vars |-> IF v = t.x THEN 2 * xl ELSE IF v = t.y THEN -1 ELSE 0],
   ub |-> xl * xl]

\* the conditions under which the cut at xl may be added for the point
\* (xs, ys): xs^2 > (1 + 1e-4)*|ys|, |xs^2 - ys| > 1e-5, the cut violated by
\* more than 1e-5 and by the factor 1 + 1e-4 over xl^2
CutAllowed(xs, ys, xl) ==
  /\ xs * xs - Abs(ys) > Abs(ys) \div 10000
  /\ Abs(xs * xs - ys) > aTolY
  /\ (2 * xl * xs - ys) - xl * xl > aTolY
  /\ (2 * xl * xs - ys) - xl * xl > (xl * xl) \div 10000

\* C19: separate adds to the relaxation only gradient cuts 2*xl*x - y <= xl^2
\* of a LinSqr whose point has x*^2 > (1 + 1e-4)*|y*| and |x*^2 - y*| > 1e-5
\* and violates the cut by more than 1e-5 and by the factor 1 + 1e-4 over
\* xl^2; the status is SepaResolve iff a cut was added; with y* = x*^2 for
\* every LinSqr the relaxation and the status are unchanged.
C19_CutsOnlyWhenViolated ==
  [][ret'.op = "separate" =>
       /\ Len(rCons') >= Len(rCons)
       /\ SubSeq(rCons', 1, Len(rCons)) = rCons
       /\ \A k \in (Len(rCons) + 1)..Len(rCons') :
            \E i \in DOMAIN x2Funs, xl \in LinPts :
              /\ rCons'[k] = GradientCut(x2Funs[i], xl)
              /\ CutAllowed(sol[x2Funs[i].x], sol[x2Funs[i].y], xl)
       /\ (ret'.status = "SepaResolve" <=> Len(rCons') > Len(rCons))
       /\ ret'.status \in {"SepaResolve", "SepaContinue"}
       /\ (\A i \in DOMAIN x2Funs : sol[x2Funs[i].y] = sol[x2Funs[i].x] * sol[x2Funs[i].x])
            => (rCons' = rCons /\ ret'.status = "SepaContinue")
       /\ pLb' = pLb /\ pUb' = pUb /\ rLb' = rLb /\ rUb' = rUb
    ]_vars

\* separate added a cut after the envelopes and asked for a resolve
C19_Witness ==
  /\ ret.op = "separate" /\ ret.status = "SepaResolve"
  /\ Len(rCons) > Len(x2Funs) + 4 * Len(x0x1Funs)
  /\ \E xl \in LinPts : rCons[Len(rCons)] = GradientCut(x2Funs[1], xl)

\* values of an operand v in its current box in the relaxation: the ends of
\* the box and the values the engine may return
BoxVals(v) ==
  {a \in {rLb[v], rUb[v]} \cup SolX0 \cup SolX1 \cup LinPts : rLb[v] <= a /\ a <= rUb[v]}

\* the point with x0 = a, x1 = b and every y the value of its term
TruePoint(a, b) == (X0 :> a) @@ (X1 :> b) @@ (YS :> a * a) @@ (YB :> a * b)

\* C25: every constraint of the relaxation (secant, McCormick envelope,
\* gradient cut) holds at every point of the current box of the operands
\* with ys = x0^2 and yb = x0*x1.
C25_OuterApproximation ==
  \A i \in DOMAIN rCons :
    \A a \in BoxVals(X0), b \in BoxVals(X1) :
      Eval(rCons[i].lf, TruePoint(a, b)) <= rCons[i].ub

---------------------------------------------------------------------------
(* SpecEnv: relax_ on arbitrary boxes of the operands, and the             *)
(* presolveNode of the root node that follows it.                          *)

EnvX0Vals == {-20000, -10000, 0, 10000, 20000}
EnvX1Vals == {-10000, 0, 5000, 20000}

InitEnv ==
  /\ \E b0 \in Boxes(EnvX0Vals), b1 \in Boxes(EnvX1Vals) :
       /\ pLb = [WideLb EXCEPT ![X0] = b0.lb, ![X1] = b1.lb]
       /\ pUb = [WideUb EXCEPT ![X0] = b0.ub, ![X1] = b1.ub]
  /\ rLb = pLb /\ rUb = pUb
  /\ rCons = <<>>
  /\ x2Funs = <<LinSqr0>> /\ x0x1Funs = <<LinBil0>>
  /\ sol = NoSol
  /\ frames = <<>>
  /\ pc = "start"
  /\ ret = NoRet
  /\ restored = NoSnap
  /\ ContainerIdle

NextEnv == RelaxInit \/ PresolveNode

SpecEnv == InitEnv /\ [][NextEnv]_vars

\* the point (a, b, a*b) of the term t
Corner(t, a, b) == (t.x0 :> a) @@ (t.x1 :> b) @@ (t.y :> a * b) @@ NoSol

\* C7: for every finite box [l0,u0]x[l1,u1], the four envelopes produced by
\* getNewBilLf_ hold with equality at a corner with y = x0*x1: type 0 at
\* (l0,l1), type 1 at (u0,u1), type 2 at (l0,u1), type 3 at (u0,l1).
C7_ExactAtCorners ==
  ret.op \in {"relaxInitFull", "relaxInitInc"} =>
    \A i \in DOMAIN x0x1Funs :
      LET t  == x0x1Funs[i]
          l0 == rLb[t.x0]
          u0 == rUb[t.x0]
          l1 == rLb[t.x1]
          u1 == rUb[t.x1]
      IN  /\ Eval(rCons[t.c0].lf, Corner(t, l0, l1)) = rCons[t.c0].ub
          /\ Eval(rCons[t.c1].lf, Corner(t, u0, u1)) = rCons[t.c1].ub
          /\ Eval(rCons[t.c2].lf, Corner(t, l0, u1)) = rCons[t.c2].ub
          /\ Eval(rCons[t.c3].lf, Corner(t, u0, l1)) = rCons[t.c3].ub

\* the envelopes of a box whose four corner products differ
C7_Witness ==
  /\ ret.op = "relaxInitFull"
  /\ rLb[X0] = -20000 /\ rUb[X0] = 10000 /\ rLb[X1] = 5000 /\ rUb[X1] = 20000
  /\ rCons[x0x1Funs[1].c3].ub = -50000000

\* the envelopes of every term are those getNewSqLf_ and getNewBilLf_ give
\* for the current box of the relaxation
EnvelopesFresh ==
  /\ \A i \in DOMAIN x2Funs :
       LET t == x2Funs[i]
           e == getNewSqLf_(t.x, t.y, rLb[t.x], rUb[t.x])
       IN  rCons[t.oeCon] = [lf |-> e.lf, ub |-> e.rhs]
  /\ \A i \in DOMAIN x0x1Funs :
       LET t == x0x1Funs[i]
           E(k) == getNewBilLf_(t.x0, rLb[t.x0], rUb[t.x0],
                                t.x1, rLb[t.x1], rUb[t.x1], t.y, k)
       IN  /\ rCons[t.c0] = [lf |-> E(0).lf, ub |-> E(0).rhs]
           /\ rCons[t.c1] = [lf |-> E(1).lf, ub |-> E(1).rhs]
           /\ rCons[t.c2] = [lf |-> E(2).lf, ub |-> E(2).rhs]
           /\ rCons[t.c3] = [lf |-> E(3).lf, ub |-> E(3).rhs]

\* C22: a presolveNode that finds the envelopes of every term equal to the
\* envelopes of the current box (a box with l0 = u0 included) changes no
\* constraint and appends no modification to r_mods.
C22_NoSpuriousRewrite ==
  [][(ret'.op = "presolveNode" /\ pc = "fresh" /\ EnvelopesFresh) =>
       /\ rCons' = rCons
       /\ ret'.out.r_mods = <<>>
    ]_vars

---------------------------------------------------------------------------
(* SpecFeas: isFeasible on arbitrary points.                               *)

FeasX0 == {0, 10000, 40000}
FeasX1 == {0, 10000, 30000}
FeasYS == {0, 100000000, 100100000, 100100001, 1599840014, 1599840015, 1599840016,
           1600000000}
FeasYB == {0, 100000000, 100100000, 100100001, 1199880011, 1199880012, 1200000000}

InitFeas ==
  /\ pLb = [WideLb EXCEPT ![X0] = 0, ![X1] = 0, ![YB] = 0]
  /\ pUb = [WideUb EXCEPT ![X0] = 40000, ![X1] = 30000, ![YS] = 1600000000,
                          ![YB] = 1200000000]
  /\ rLb = pLb /\ rUb = pUb
  /\ rCons = <<>>
  /\ x2Funs = <<LinSqr0>> /\ x0x1Funs = <<LinBil0>>
  /\ \E a \in FeasX0, b \in FeasX1, c \in FeasYS, d \in FeasYB :
       sol = (X0 :> a) @@ (X1 :> b) @@ (YS :> c) @@ (YB :> d)
  /\ frames = <<>>
  /\ pc = "solved"
  /\ ret = NoRet
  /\ restored = NoSnap
  /\ ContainerIdle

IsFeasible ==
  /\ pc = "solved"
  /\ ret' = Ret("isFeasible", FALSE, FALSE,
                IF isFeasible(sol, x2Funs, x0x1Funs) THEN "true" ELSE "false")
  /\ UNCHANGED <<pLb, pUb, rLb, rUb, rCons, x2Funs, x0x1Funs, sol, frames, pc, restored>>
  /\ UNCHANGED cvars

GetBranchingCandidates ==
  /\ pc = "solved"
  /\ ret' = RetOut("getBranchingCandidates", FALSE,
                   getBranchingCandidates(CurStore, sol, x2Funs, x0x1Funs))
  /\ UNCHANGED <<pLb, pUb, rLb, rUb, rCons, x2Funs, x0x1Funs, sol, frames, pc, restored>>
  /\ UNCHANGED cvars

NextFeas == IsFeasible \/ GetBranchingCandidates

SpecFeas == InitFeas /\ [][NextFeas]_vars

\* |yval - xop| for the square term and for the bilinear term
SqrGap(t) == Abs(sol[t.y] - sol[t.x] * sol[t.x])
BilGap(t) == Abs(sol[t.y] - sol[t.x0] * sol[t.x1])

\* d <= max(a_tol, r_tol * |y|) for whole numbers d and y of units of 1e-10
WithinTol(d, y) == d <= aTolY \/ d <= Abs(y) \div 10000

\* C8 (as claimed): isFeasible returns true iff every quadratic term passes
\* |y* - xop*| <= max(a_tol, r_tol*|y*|), a_tol = 1e-5, r_tol = 1e-4, where
\* xop* is (x*)^2 for a LinSqr and x0* * x1* for a LinBil.
C8_TolTest ==
  ret.op = "isFeasible" =>
    (ret.status = "true" <=>
       /\ \A i \in DOMAIN x2Funs : WithinTol(SqrGap(x2Funs[i]), sol[x2Funs[i].y])
       /\ \A i \in DOMAIN x0x1Funs : WithinTol(BilGap(x0x1Funs[i]), sol[x0x1Funs[i].y]))

\* C8 (amended): isFeasible returns true iff every LinSqr has
\* |y* - (x*)^2| <= 1e-5 or |y* - (x*)^2| <= 1e-4 * (|y*| + 1e-6), and
\* every LinBil has |y* - x0* * x1*| <= max(1e-5, 1e-4 * |y*|).
C8_TolTestSqrEps ==
  ret.op = "isFeasible" =>
    (ret.status = "true" <=>
       /\ \A i \in DOMAIN x2Funs :
            \/ SqrGap(x2Funs[i]) <= 100000
            \/ SqrGap(x2Funs[i]) <= (Abs(sol[x2Funs[i].y]) + 10000) \div 10000
       /\ \A i \in DOMAIN x0x1Funs : WithinTol(BilGap(x0x1Funs[i]), sol[x0x1Funs[i].y]))

\* a point accepted though its square term misses max(a_tol, r_tol*|y*|)
C8_Witness ==
  /\ ret.op = "isFeasible" /\ ret.status = "true"
  /\ ~WithinTol(SqrGap(x2Funs[1]), sol[x2Funs[1].y])

\* the claim's tests: a bilinear term is violated at the primal, a value is
\* at a bound of its variable in the relaxation, a square term proposes x
BilViolated(t) == ~WithinTol(BilGap(t), sol[t.y])
AtBound(v) == Abs(sol[v] - rLb[v]) < aTolX \/ Abs(sol[v] - rUb[v]) < aTolX
SqrProposes(v) ==
  \E i \in DOMAIN x2Funs :
    /\ x2Funs[i].x = v
    /\ sol[x2Funs[i].y] - sol[v] * sol[v] > (Abs(sol[x2Funs[i].y]) + 10000) \div 10000

\* C15: for every LinBil violated at the primal, getBranchingCandidates
\* proposes each operand that is not at one of its bounds (by less than
\* a_tol) and does not propose, because of this term, an operand that is;
\* no operand of a term that is not violated is proposed because of it: a
\* variable that no violated bilinear term proposes is a candidate only if
\* its square term proposes it.
C15_BilCandidates ==
  ret.op = "getBranchingCandidates" =>
    /\ \A i \in DOMAIN x0x1Funs : \A v \in {x0x1Funs[i].x0, x0x1Funs[i].x1} :
         (BilViolated(x0x1Funs[i]) /\ ~AtBound(v)) => v \in ret.out
    /\ \A v \in ret.out :
         \/ SqrProposes(v)
         \/ \E i \in DOMAIN x0x1Funs :
              /\ v \in {x0x1Funs[i].x0, x0x1Funs[i].x1}
              /\ BilViolated(x0x1Funs[i]) /\ ~AtBound(v)

\* the bilinear term is violated with x0 at its lower bound and x1 inside
\* its box: only x1 is a candidate
C15_Witness ==
  /\ ret.op = "getBranchingCandidates"
  /\ BilViolated(LinBil0) /\ AtBound(X0) /\ ~AtBound(X1)
  /\ ret.out = {X1}

---------------------------------------------------------------------------
(* SpecProblem: the Problem container under additions and deletions.       *)

\* how many variables and constraints are ever created, and how many marks
\* for deletion are pending at a time
MaxVId == 3
MaxCId == 3
MaxMarks == 2

\* Problem::newVariable(lb, ub, vType, name): the Variable constructed
\* gets the next id and the position vars_.size()
newVariable(vs, id) == Append(vs, [id |-> id, index |-> Len(vs), state |-> "NormalVar"])

\* Problem::newConstraint(f, lb, ub, name)
newCons(cs, id) == Append(cs, [id |-> id, index |-> Len(cs), state |-> "NormalCons"])

\* Variable::setIndex_ / Constraint::setIndex_ over the kept elements, in order
RECURSIVE setIndices(_, _)
setIndices(es, i) ==
  IF i > Len(es) THEN es ELSE setIndices([es EXCEPT ![i].index = i - 1], i + 1)

Kept(es, deleted) == SelectSeq(es, LAMBDA e : e.state # deleted)

\* delMarkedVars as it would be without v->setIndex_(i)
delMarkedVars_noSetIndex(vs) == Kept(vs, "DeletedVar")

\* Problem::delMarkedVars: the loop that copies and re-indexes
delMarkedVars(vs) == setIndices(Kept(vs, "DeletedVar"), 1)

\* Problem::delMarkedCons: copycons, then the loop that re-indexes
delMarkedCons(cs) == setIndices(Kept(cs, "DeletedCons"), 1)

HandlerIdle ==
  /\ pLb = WideLb /\ pUb = WideUb /\ rLb = WideLb /\ rUb = WideUb
  /\ rCons = <<>> /\ x2Funs = <<>> /\ x0x1Funs = <<>>
  /\ sol = NoSol /\ frames = <<>> /\ pc = "problem" /\ ret = NoRet
  /\ restored = NoSnap

InitProblem ==
  /\ HandlerIdle
  /\ vars_ = <<>> /\ cons_ = <<>>
  /\ nextVId_ = 0 /\ nextCId_ = 0
  /\ numDVars_ = 0 /\ numDCons_ = 0
  /\ engine_ = FALSE
  /\ DetailIdle

\* the assertion as it would be if it were compiled out
NoEngine_unchecked == TRUE

\* assert(engine_ == 0 || !"Cannot ... after loading problem to engine")
NoEngine == ~engine_

NewVariable ==
  /\ NoEngine
  /\ nextVId_ < MaxVId
  /\ vars_' = newVariable(vars_, nextVId_)
  /\ nextVId_' = nextVId_ + 1
  /\ UNCHANGED <<cons_, nextCId_, numDVars_, numDCons_, engine_>>
  /\ UNCHANGED hvars
  /\ UNCHANGED xvars

NewConstraint ==
  /\ nextCId_ < MaxCId
  /\ cons_' = newCons(cons_, nextCId_)
  /\ nextCId_' = nextCId_ + 1
  /\ UNCHANGED <<vars_, nextVId_, numDVars_, numDCons_, engine_>>
  /\ UNCHANGED hvars
  /\ UNCHANGED xvars

MarkDeleteVar ==
  /\ NoEngine
  /\ numDVars_ < MaxMarks
  /\ \E i \in DOMAIN vars_ : vars_' = [vars_ EXCEPT ![i].state = "DeletedVar"]
  /\ numDVars_' = numDVars_ + 1
  /\ UNCHANGED <<cons_, nextVId_, nextCId_, numDCons_, engine_>>
  /\ UNCHANGED hvars
  /\ UNCHANGED xvars

MarkDeleteCons ==
  /\ numDCons_ < MaxMarks
  /\ \E i \in DOMAIN cons_ : cons_' = [cons_ EXCEPT ![i].state = "DeletedCons"]
  /\ numDCons_' = numDCons_ + 1
  /\ UNCHANGED <<vars_, nextVId_, nextCId_, numDVars_, engine_>>
  /\ UNCHANGED hvars
  /\ UNCHANGED xvars

DelMarkedVars ==
  /\ NoEngine
  /\ IF numDVars_ > 0
     THEN vars_' = delMarkedVars(vars_) /\ numDVars_' = 0
     ELSE UNCHANGED <<vars_, numDVars_>>
  /\ UNCHANGED <<cons_, nextVId_, nextCId_, numDCons_, engine_>>
  /\ UNCHANGED hvars
  /\ UNCHANGED xvars

\* delMarkedCons: outOfConstraint_(c) for every removed constraint c and
\* every variable of c's function
unlinkDeleted(vc, cs, cf) ==
  [v \in DOMAIN vc |->
     vc[v] \ {cs[i].id : i \in {j \in DOMAIN cs : /\ cs[j].state = "DeletedCons"
                                                  /\ v \in (cf[cs[j].id].lf \cup cf[cs[j].id].qf)}}]

DelMarkedCons ==
  /\ IF numDCons_ > 0
     THEN /\ cons_' = delMarkedCons(cons_) /\ numDCons_' = 0
          /\ vcons' = unlinkDeleted(vcons, cons_, cfun)
     ELSE UNCHANGED <<cons_, numDCons_, vcons>>
  /\ UNCHANGED <<vars_, nextVId_, nextCId_, numDVars_, engine_>>
  /\ UNCHANGED hvars
  /\ UNCHANGED <<vbnd, cfun, cbnd, obj_, engineSaw>>

SetEngine ==
  /\ engine_' = TRUE
  /\ UNCHANGED <<vars_, cons_, nextVId_, nextCId_, numDVars_, numDCons_>>
  /\ UNCHANGED hvars
  /\ UNCHANGED xvars

UnsetEngine ==
  /\ engine_' = FALSE
  /\ UNCHANGED <<vars_, cons_, nextVId_, nextCId_, numDVars_, numDCons_>>
  /\ UNCHANGED hvars
  /\ UNCHANGED xvars

NextProblem ==
  \/ NewVariable \/ NewConstraint \/ MarkDeleteVar \/ MarkDeleteCons
  \/ DelMarkedVars \/ DelMarkedCons \/ SetEngine \/ UnsetEngine

SpecProblem == InitProblem /\ [][NextProblem]_vars

\* every element's index is its slot, and the elements are in the order in
\* which they were created
Indexed(es) ==
  /\ \A i \in DOMAIN es : es[i].index = i - 1
  /\ \A i, j \in DOMAIN es : i < j => es[i].id < es[j].id

\* C10: after any sequence of newVariable, newConstraint, markDelete,
\* delMarkedVars and delMarkedCons, every variable's index is its slot in
\* the variable vector and every constraint's index is its slot in the
\* constraint vector; deletions compact and re-index, keeping the order.
C10_IndexIsSlot == Indexed(vars_) /\ Indexed(cons_)

\* a deletion has moved a later variable and a later constraint to the front
C10_Witness ==
  /\ Len(vars_) > 0 /\ vars_[1].id > 0
  /\ Len(cons_) > 0 /\ cons_[1].id > 0
  /\ numDVars_ = 0 /\ numDCons_ = 0

---------------------------------------------------------------------------
(* Claims on deletion while an engine is attached *)

\* the ids of the elements of es, and of those in state st
Ids(es) == {es[i].id : i \in DOMAIN es}
Marked(es, st) == {es[i].id : i \in {j \in DOMAIN es : es[j].state = st}}

\* C12 (as stated): while an engine is attached, no variable and no
\* constraint is marked deleted or removed.
C12_NoDeletionWithEngine ==
  [][engine_ =>
       /\ Ids(vars_) \subseteq Ids(vars_') /\ Ids(cons_) \subseteq Ids(cons_')
       /\ Marked(vars_', "DeletedVar") \subseteq Marked(vars_, "DeletedVar")
       /\ Marked(cons_', "DeletedCons") \subseteq Marked(cons_, "DeletedCons")]_vars

\* C12 (amended): while an engine is attached, no variable is marked
\* deleted or removed (markDelete on a variable and delMarkedVars assert
\* that there is no engine); constraints can be marked and removed.
C12_NoVarDeletionWithEngine ==
  [][engine_ =>
       /\ Ids(vars_) \subseteq Ids(vars_')
       /\ Marked(vars_', "DeletedVar") \subseteq Marked(vars_, "DeletedVar")]_vars

\* an engine is attached to a Problem that has a variable marked deleted
\* and a constraint marked deleted
C12_Witness ==
  /\ engine_
  /\ Marked(vars_, "DeletedVar") # {}
  /\ Marked(cons_, "DeletedCons") # {}

---------------------------------------------------------------------------
(* SpecProp: the four propagation routines called on arbitrary bounds.     *)

\* bounds of the operands, in units of 1e-5
PropXVals == {-20000, -10000, 0, 1, 10000, 20000}
PropX0Vals == {-20000, 0, 10000, 20000}
PropX1Vals == {-10000, 0, 20000}
\* bounds of ys = x0^2, in units of 1e-10
PropYSVals == {-100000000, 0, 40000, 100000000, 400000000}
\* bounds of yb = x0*x1, in units of 1e-10
PropYBVals == {-400000000, 0, 100000000, 400000000}

\* either the boxes of the square term vary, or those of the bilinear term
InitProp ==
  /\ \/ \E b0 \in Boxes(PropXVals), bs \in Boxes(PropYSVals) :
          /\ pLb = [WideLb EXCEPT ![X0] = b0.lb, ![YS] = bs.lb]
          /\ pUb = [WideUb EXCEPT ![X0] = b0.ub, ![YS] = bs.ub]
     \/ \E b0 \in Boxes(PropX0Vals), b1 \in Boxes(PropX1Vals), bb \in Boxes(PropYBVals) :
          /\ pLb = [WideLb EXCEPT ![X0] = b0.lb, ![X1] = b1.lb, ![YB] = bb.lb]
          /\ pUb = [WideUb EXCEPT ![X0] = b0.ub, ![X1] = b1.ub, ![YB] = bb.ub]
  /\ rLb = pLb /\ rUb = pUb
  /\ rCons = <<>>
  /\ x2Funs = <<LinSqr0>> /\ x0x1Funs = <<LinBil0>>
  /\ sol = NoSol
  /\ frames = <<>>
  /\ pc = "prop"
  /\ ret = NoRet
  /\ restored = NoSnap
  /\ ContainerIdle

\* the state after a propagation call that returned res
AfterProp(op, res) ==
  /\ pLb' = res.s.pLb /\ pUb' = res.s.pUb
  /\ rLb' = res.s.rLb /\ rUb' = res.s.rUb
  /\ ret' = Ret(op, res.inf, res.s.changed, "none")
  /\ pc' = IF res.inf THEN "infeasible" ELSE "prop"
  /\ UNCHANGED <<rCons, x2Funs, x0x1Funs, sol, frames, restored>>
  /\ UNCHANGED cvars

CallPropSqr ==
  /\ pc = "prop"
  /\ \E i \in DOMAIN x2Funs : AfterProp("propSqrBnds_", propSqrBnds_(CurStore, x2Funs[i]))

CallPropBil ==
  /\ pc = "prop"
  /\ \E i \in DOMAIN x0x1Funs : AfterProp("propBilBnds_", propBilBnds_(CurStore, x0x1Funs[i]))

CallPropSqrNode ==
  /\ pc = "prop"
  /\ \E i \in DOMAIN x2Funs :
       AfterProp("propSqrBnds_node", propSqrBnds_node(CurStore, x2Funs[i]))

CallPropBilNode ==
  /\ pc = "prop"
  /\ \E i \in DOMAIN x0x1Funs :
       AfterProp("propBilBnds_node", propBilBnds_node(CurStore, x0x1Funs[i]))

NextProp == CallPropSqr \/ CallPropBil \/ CallPropSqrNode \/ CallPropBilNode

SpecProp == InitProp /\ [][NextProp]_vars

---------------------------------------------------------------------------
(* Claims on the propagation routines *)

\* the call named by ret.op, made again on the current bounds
SecondCall ==
  CASE ret.op = "propSqrBnds_"     -> propSqrBnds_(CurStore, x2Funs[1])
    [] ret.op = "propBilBnds_"     -> propBilBnds_(CurStore, x0x1Funs[1])
    [] ret.op = "propSqrBnds_node" -> propSqrBnds_node(CurStore, x2Funs[1])
    [] ret.op = "propBilBnds_node" -> propBilBnds_node(CurStore, x0x1Funs[1])

NoChangeBy(res) ==
  /\ res.s.pLb = pLb /\ res.s.pUb = pUb
  /\ res.s.rLb = rLb /\ res.s.rUb = rUb
  /\ ~res.s.changed

\* C9 (as claimed): after a call of propSqrBnds_ or propBilBnds_ (either
\* overload) that did not report infeasibility, the same call made again
\* at once changes no bound and does not set the changed flag.
C9_Idempotent ==
  (pc = "prop" /\ ret.op # "none" /\ ~ret.inf) => NoChangeBy(SecondCall)

\* C9 (amended): after a call of propSqrBnds_ (either overload) that did
\* not report infeasibility, the same call made again at once changes no
\* bound and does not set the changed flag.
C9_SqrIdempotent ==
  (pc = "prop" /\ ret.op \in {"propSqrBnds_", "propSqrBnds_node"} /\ ~ret.inf)
     => NoChangeBy(SecondCall)

\* a call of propSqrBnds_ has tightened x0 from the bounds of ys
C9_Witness ==
  /\ pc = "prop" /\ ret.op = "propSqrBnds_node" /\ ~ret.inf /\ ret.changed
  /\ pLb[X0] = -10000 /\ pUb[X0] = 10000 /\ pUb[YS] = 100000000


\* a step that is a call of propSqrBnds_ (either overload)
SqrCall == ret'.op \in {"propSqrBnds_", "propSqrBnds_node"}

\* C21 as stated: with u_y the upper bound of y in the backward step, a call
\* of propSqrBnds_ that is not infeasible leaves x within
\* [-sqrt(u_y), sqrt(u_y)] when u_y > a_tol, with x.lb >= sqrt(l_y) when x.lb
\* was above -sqrt(l_y), and leaves x = [0,0] when |u_y| <= a_tol; a call
\* with u_y < -a_tol is infeasible.
C21_ThreeCases ==
  [][SqrCall =>
       LET t  == x2Funs[1]
           uy == pUb'[t.y]
           ly == pLb'[t.y]
       IN  /\ uy < -aTolY => ret'.inf
           /\ (uy > aTolY /\ ~ret'.inf) =>
                /\ pUb'[t.x] <= Sqrt(uy) /\ pLb'[t.x] >= -Sqrt(uy)
                /\ (ly >= 0 /\ pLb[t.x] > -Sqrt(ly)) => pLb'[t.x] >= Sqrt(ly)
           /\ (uy >= -aTolY /\ uy <= aTolY /\ ~ret'.inf) =>
                pLb'[t.x] = 0 /\ pUb'[t.x] = 0
    ]_vars

\* C21: the same three cases with every bound of x met up to a_tol: a bound
\* of x is moved only when it is off by more than a_tol.
C21_ThreeCasesWithinTol ==
  [][SqrCall =>
       LET t  == x2Funs[1]
           uy == pUb'[t.y]
           ly == pLb'[t.y]
       IN  /\ uy < -aTolY => ret'.inf
           /\ (uy > aTolY /\ ~ret'.inf) =>
                /\ pUb'[t.x] <= Sqrt(uy) + aTolX /\ pLb'[t.x] >= -Sqrt(uy) - aTolX
                /\ (ly >= 0 /\ pLb[t.x] > -Sqrt(ly) + aTolX)
                     => pLb'[t.x] >= Sqrt(ly) - aTolX
           /\ (uy >= -aTolY /\ uy <= aTolY /\ ~ret'.inf) =>
                /\ pLb'[t.x] >= -aTolX /\ pUb'[t.x] <= aTolX
    ]_vars

\* the node overload collapsed x to [0,0] on an upper bound 0 of y
C21_Witness ==
  /\ ret.op = "propSqrBnds_node" /\ ~ret.inf /\ ret.changed
  /\ pUb[YS] = 0 /\ pLb[X0] = 0 /\ pUb[X0] = 0

\* a step that is a call of one of the four propagation routines
PropCall ==
  ret'.op \in {"propSqrBnds_", "propBilBnds_", "propSqrBnds_node", "propBilBnds_node"}

\* C23: a propagation call in which updatePBounds_ (either overload) changes
\* a lower bound, an upper bound or both returns with the changed flag set.
C23_ChangeSetsFlag ==
  [][(PropCall /\ (pLb' # pLb \/ pUb' # pUb)) => ret'.changed]_vars

\* values of the operands that the points of a term are made of
PointVals == {-20000, -10000, 0, 1, 200, 5000, 10000, 20000}

\* the point x lies within the bounds lb, ub on the variables vs
Within(x, vs, lb, ub) == \A v \in vs : lb[v] <= x[v] /\ x[v] <= ub[v]

\* the points of the term the call is made on: (a, a^2) or (a, b, a*b)
TermPoints ==
  IF SqrCall
  THEN {(x2Funs[1].x :> a) @@ (x2Funs[1].y :> a * a) : a \in PointVals}
  ELSE {(x0x1Funs[1].x0 :> a) @@ (x0x1Funs[1].x1 :> b) @@ (x0x1Funs[1].y :> a * b) :
          a \in PointVals, b \in PointVals}

\* C24: a call of propSqrBnds_ or propBilBnds_ (either overload) keeps every
\* point (x, x^2), resp. (x0, x1, x0*x1), that is within the bounds before
\* the call within the bounds after it, and is not infeasible when there is
\* such a point.
C24_Sound ==
  [][PropCall =>
       \A x \in TermPoints :
         Within(x, DOMAIN x, pLb, pUb) =>
           ~ret'.inf /\ Within(x, DOMAIN x, pLb', pUb')
    ]_vars

\* two results of a propagation call have the same verdict, the same bounds
\* of the original problem and the same changed flag
Agree(r1, r2) ==
  /\ r1.inf = r2.inf
  /\ r1.s.pLb = r2.s.pLb /\ r1.s.pUb = r2.s.pUb
  /\ r1.s.changed = r2.s.changed

\* C28: from the same bounds on the same term, the presolve overload and the
\* node overload of propSqrBnds_, and those of propBilBnds_, return the same
\* verdict, the same bounds of the original problem and the same changed flag.
C28_OverloadsAgree ==
  pc = "prop" =>
    /\ \A i \in DOMAIN x2Funs :
         Agree(propSqrBnds_(CurStore, x2Funs[i]), propSqrBnds_node(CurStore, x2Funs[i]))
    /\ \A i \in DOMAIN x0x1Funs :
         Agree(propBilBnds_(CurStore, x0x1Funs[i]), propBilBnds_node(CurStore, x0x1Funs[i]))

\* the quotient [l0,u0] / [l1,u1] has bounds the model can represent
QuotExact(l0, u0, l1, u1) ==
  \/ l1 <= 0 /\ u1 >= 0
  \/ \A a \in {l0, u0}, b \in {l1, u1} : Abs(a) % Abs(b) = 0

\* the bounds of v after the call are those of the bounds lb, ub (v as
\* before the call, every other variable as after it) met with the quotient
\* of the interval of num by the whole interval of den
MetWithQuotient(v, num, den) ==
  LET lb == [pLb' EXCEPT ![v] = pLb[v]]
      ub == [pUb' EXCEPT ![v] = pUb[v]]
  IN  QuotExact(lb[num], ub[num], lb[den], ub[den]) =>
        LET q == BoundsOnDiv(lb[num], ub[num], lb[den], ub[den])
            r == updatePBounds_(Store(lb, ub, lb, ub, <<>>), v, q.lb, q.ub)
        IN  /\ r.r = 0
            /\ r.s.pLb[v] = pLb'[v] /\ r.s.pUb[v] = pUb'[v]

\* C20: a call of propBilBnds_ (either overload) that does not report
\* infeasibility leaves x1 met with [y.lb,y.ub] / [x0.lb,x0.ub] and then x0
\* met with [y.lb,y.ub] / [x1.lb,x1.ub].
C20_FullQuotient ==
  [][(ret'.op \in {"propBilBnds_", "propBilBnds_node"} /\ ~ret'.inf) =>
       LET t  == x0x1Funs[1]
           lb == [pLb' EXCEPT ![t.x0] = pLb[t.x0]]
           ub == [pUb' EXCEPT ![t.x0] = pUb[t.x0]]
       IN  /\ QuotExact(lb[t.y], ub[t.y], lb[t.x0], ub[t.x0]) =>
                LET q == BoundsOnDiv(lb[t.y], ub[t.y], lb[t.x0], ub[t.x0])
                    r == updatePBounds_(Store([lb EXCEPT ![t.x1] = pLb[t.x1]],
                                              [ub EXCEPT ![t.x1] = pUb[t.x1]],
                                              lb, ub, <<>>),
                                        t.x1, q.lb, q.ub)
                IN  /\ r.r = 0
                    /\ r.s.pLb[t.x1] = pLb'[t.x1] /\ r.s.pUb[t.x1] = pUb'[t.x1]
           /\ MetWithQuotient(t.x0, t.y, t.x1)
    ]_vars

---------------------------------------------------------------------------
(* SpecEngine: the mutations of a Problem that are passed on to the        *)
(* attached engine.  A call received by the engine is recorded with the    *)
(* state of its target in the Problem before the method (pre), when the    *)
(* engine is called (obs) and after the method (post).                     *)

\* values of a bound
BndVals == {0, 1}
\* linear functions, as the set of variables with a term
LfVals == {{}, {0}}
\* objective functions (0 is none)
ObjVals == {1, 2}

SetBnd(b, lu, val) ==
  IF lu = "Lower" THEN [b EXCEPT !.lb = val] ELSE [b EXCEPT !.ub = val]

\* what the engine finds in the Problem when it is called after the setters
LocalThenEngine(pre, post) == post

\* the engine called first, as it would be if it were called last
EngineThenLocal_late(pre, post) == post

\* what the engine finds in the Problem when it is called before the setters
EngineThenLocal(pre, post) == pre

\* if (engine_) engine_->op(...): the call the engine receives, if any
Forward(op, target, pre, obs, post) ==
  IF engine_ THEN [op |-> op, target |-> target, pre |-> pre, obs |-> obs, post |-> post]
  ELSE engineSaw

\* the variables of a function: those of its linear part and of its
\* quadratic and nonlinear parts
FunVars(f) == f.lf \cup f.qf

\* Variable::outOfConstraint_(c) for every variable of vs
outOfConstraint_(vc, vs, c) == [v \in DOMAIN vc |-> IF v \in vs THEN vc[v] \ {c} ELSE vc[v]]

\* Variable::inConstraint_(c) for every variable of vs
inConstraint_(vc, vs, c) == [v \in DOMAIN vc |-> IF v \in vs THEN vc[v] \cup {c} ELSE vc[v]]

\* a Problem of one variable and one constraint on it
InitEngine ==
  /\ HandlerIdle
  /\ vars_ = newVariable(<<>>, 0) /\ nextVId_ = 1
  /\ cons_ = newCons(<<>>, 0) /\ nextCId_ = 1
  /\ numDVars_ = 0 /\ numDCons_ = 0
  /\ engine_ = FALSE
  /\ vbnd = (0 :> [lb |-> 0, ub |-> 1])
  /\ cbnd = (0 :> [lb |-> 0, ub |-> 1])
  /\ cfun = (0 :> [lf |-> {0}, qf |-> {}])
  /\ vcons = (0 :> {0})
  /\ obj_ \in {NoObj, [f |-> 1, neg |-> FALSE]}
  /\ engineSaw = NoCall

\* Problem::changeBound(UInt index, BoundType lu, Double new_val)
ChangeBoundIdx ==
  \E i \in DOMAIN vars_, lu \in {"Lower", "Upper"}, val \in BndVals :
    LET id == vars_[i].id
        post == SetBnd(vbnd[id], lu, val)
    IN  /\ vbnd' = [vbnd EXCEPT ![id] = post]
        /\ engineSaw' = Forward("changeBound", id, vbnd[id],
                                LocalThenEngine(vbnd[id], post), post)
        /\ UNCHANGED <<vars_, cons_, nextVId_, nextCId_, numDVars_, numDCons_, engine_,
                       vcons, cfun, cbnd, obj_>>
        /\ UNCHANGED hvars

\* Problem::changeBound(UInt index, Double new_lb, Double new_ub)
ChangeBoundIdx2 ==
  \E i \in DOMAIN vars_, lb \in BndVals, ub \in BndVals :
    LET id == vars_[i].id
        post == [lb |-> lb, ub |-> ub]
    IN  /\ vbnd' = [vbnd EXCEPT ![id] = post]
        /\ engineSaw' = Forward("changeBound2", id, vbnd[id],
                                LocalThenEngine(vbnd[id], post), post)
        /\ UNCHANGED <<vars_, cons_, nextVId_, nextCId_, numDVars_, numDCons_, engine_,
                       vcons, cfun, cbnd, obj_>>
        /\ UNCHANGED hvars

\* Problem::changeBound(VariablePtr var, BoundType lu, Double new_val)
ChangeBoundVar ==
  \E i \in DOMAIN vars_, lu \in {"Lower", "Upper"}, val \in BndVals :
    LET id == vars_[i].id
        post == SetBnd(vbnd[id], lu, val)
    IN  /\ vars_[i].index = i - 1
        /\ vbnd' = [vbnd EXCEPT ![id] = post]
        /\ engineSaw' = Forward("changeBoundVar", id, vbnd[id],
                                LocalThenEngine(vbnd[id], post), post)
        /\ UNCHANGED <<vars_, cons_, nextVId_, nextCId_, numDVars_, numDCons_, engine_,
                       vcons, cfun, cbnd, obj_>>
        /\ UNCHANGED hvars

\* Problem::changeBound(VariablePtr var, Double new_lb, Double new_ub)
ChangeBoundVar2 ==
  \E i \in DOMAIN vars_, lb \in BndVals, ub \in BndVals :
    LET id == vars_[i].id
        post == [lb |-> lb, ub |-> ub]
    IN  /\ vars_[i].index = i - 1
        /\ vbnd' = [vbnd EXCEPT ![id] = post]
        /\ engineSaw' = Forward("changeBoundVar2", id, vbnd[id],
                                LocalThenEngine(vbnd[id], post), post)
        /\ UNCHANGED <<vars_, cons_, nextVId_, nextCId_, numDVars_, numDCons_, engine_,
                       vcons, cfun, cbnd, obj_>>
        /\ UNCHANGED hvars

\* Problem::changeBound(ConstraintPtr con, Double new_lb, Double new_ub):
\* asserts that no engine is attached
ChangeBoundCon2 ==
  \E i \in DOMAIN cons_, lb \in BndVals, ub \in BndVals :
    /\ cons_[i].index = i - 1
    /\ ~engine_
    /\ cbnd' = [cbnd EXCEPT ![cons_[i].id] = [lb |-> lb, ub |-> ub]]
    /\ UNCHANGED <<vars_, cons_, nextVId_, nextCId_, numDVars_, numDCons_, engine_,
                   vbnd, vcons, cfun, obj_, engineSaw>>
    /\ UNCHANGED hvars

\* Problem::changeBound(ConstraintPtr con, BoundType lu, Double new_val)
ChangeBoundCon ==
  \E i \in DOMAIN cons_, lu \in {"Lower", "Upper"}, val \in BndVals :
    LET id == cons_[i].id
        post == SetBnd(cbnd[id], lu, val)
    IN  /\ cons_[i].index = i - 1
        /\ engineSaw' = Forward("changeBoundCon", id, cbnd[id],
                                EngineThenLocal(cbnd[id], post), post)
        /\ cbnd' = [cbnd EXCEPT ![id] = post]
        /\ UNCHANGED <<vars_, cons_, nextVId_, nextCId_, numDVars_, numDCons_, engine_,
                       vbnd, vcons, cfun, obj_>>
        /\ UNCHANGED hvars


\* Problem::changeConstraint: the back-references after the loop over the
\* variables of the old function and the loop over the terms of lf
relink(vc, f, c, lf) == inConstraint_(outOfConstraint_(vc, FunVars(f), c), lf, c)

\* a constraint as the engine reads it: its function and its bounds
ConsState(f, b) == [f |-> f, b |-> b]

\* Problem::changeConstraint(con, lf, lb, ub)
ChangeConstraint ==
  \E i \in DOMAIN cons_, lf \in LfVals, lb \in BndVals, ub \in BndVals :
    LET id == cons_[i].id
        pre == ConsState(cfun[id], cbnd[id])
        post == ConsState([cfun[id] EXCEPT !.lf = lf], [lb |-> lb, ub |-> ub])
    IN  /\ cons_[i].index = i - 1
        /\ lf \subseteq DOMAIN vcons
        /\ engineSaw' = Forward("changeConstraint", id, pre, EngineThenLocal(pre, post), post)
        /\ vcons' = relink(vcons, cfun[id], id, lf)
        /\ cfun' = [cfun EXCEPT ![id] = post.f]
        /\ cbnd' = [cbnd EXCEPT ![id] = post.b]
        /\ UNCHANGED <<vars_, cons_, nextVId_, nextCId_, numDVars_, numDCons_, engine_,
                       vbnd, obj_>>
        /\ UNCHANGED hvars

\* Problem::negateObj
NegateObj ==
  LET post == IF obj_.f # 0 THEN [obj_ EXCEPT !.neg = ~obj_.neg] ELSE obj_
  IN  /\ engineSaw' = Forward("negateObj", 0, obj_, EngineThenLocal(obj_, post), post)
      /\ obj_' = post
      /\ UNCHANGED <<vars_, cons_, nextVId_, nextCId_, numDVars_, numDCons_, engine_,
                     vbnd, vcons, cfun, cbnd>>
      /\ UNCHANGED hvars

\* Problem::changeObj(f, cb)
ChangeObj ==
  \E f \in ObjVals :
    LET post == [f |-> f, neg |-> FALSE]
    IN  /\ engineSaw' = Forward("changeObj", 0, obj_, EngineThenLocal(obj_, post), post)
        /\ obj_' = post
        /\ UNCHANGED <<vars_, cons_, nextVId_, nextCId_, numDVars_, numDCons_, engine_,
                       vbnd, vcons, cfun, cbnd>>
        /\ UNCHANGED hvars

NextEngine ==
  \/ SetEngine \/ UnsetEngine
  \/ ChangeBoundIdx \/ ChangeBoundIdx2 \/ ChangeBoundVar \/ ChangeBoundVar2
  \/ ChangeBoundCon2 \/ ChangeBoundCon \/ ChangeConstraint
  \/ NegateObj \/ ChangeObj

SpecEngine == InitEngine /\ [][NextEngine]_vars

---------------------------------------------------------------------------
(* Claims on the forwarding of mutations *)

VarOps == {"changeBound", "changeBound2", "changeBoundVar", "changeBoundVar2"}
ConOps == {"changeBoundCon", "changeConstraint", "changeObj", "negateObj"}

\* C11 (as stated): every mutation passed on to the attached engine reaches
\* it before the Problem's own state is changed: during the call the engine
\* finds the target as it was before the method.
C11_ForwardedFirst ==
  engineSaw.op # "none" => engineSaw.obs = engineSaw.pre

\* C11 (amended): while an engine is attached, changeBound on one bound of
\* a constraint, changeConstraint, changeObj and negateObj reach the engine
\* before the Problem's own state is changed (the engine finds the old
\* state); the four changeBound overloads on a variable change the variable
\* first and call the engine afterwards (the engine finds the new bounds);
\* and nothing else changes a bound, a function or the objective while an
\* engine is attached: changeBound(con, lb, ub) asserts there is none.
C11_ForwardOrder ==
  /\ [](/\ engineSaw.op \in ConOps => engineSaw.obs = engineSaw.pre
        /\ engineSaw.op \in VarOps => engineSaw.obs = engineSaw.post)
  /\ [][engine_ =>
          /\ vbnd' # vbnd => engineSaw'.op \in VarOps /\ engineSaw'.post = vbnd'[engineSaw'.target]
          /\ cbnd' # cbnd => engineSaw'.op \in {"changeBoundCon", "changeConstraint"}
          /\ cfun' # cfun => engineSaw'.op = "changeConstraint"
          /\ obj_' # obj_ => engineSaw'.op \in {"changeObj", "negateObj"}
                               /\ engineSaw'.post = obj_']_vars

\* the attached engine has been told of a change of a constraint's bound
\* that changed the bound
C11_Witness ==
  /\ engine_
  /\ engineSaw.op = "changeBoundCon"
  /\ engineSaw.pre # engineSaw.post


---------------------------------------------------------------------------
(* SpecRefs: the back-references Variable::cons_ under the operations of   *)
(* Problem that create, change and remove constraints.  A function is the  *)
(* set of variables of its linear part (lf) and the set of variables of    *)
(* its quadratic and nonlinear parts (qf).                                 *)

\* constraints created
MaxRefCons == 1

\* functions a caller passes to newConstraint
FunVals == {[lf |-> {0}, qf |-> {}], [lf |-> {0}, qf |-> {1}], [lf |-> {1}, qf |-> {0, 1}]}

\* a Problem of two variables and no constraint
InitRefs ==
  /\ HandlerIdle
  /\ vars_ = newVariable(newVariable(<<>>, 0), 1) /\ nextVId_ = 2
  /\ cons_ = <<>> /\ nextCId_ = 0
  /\ numDVars_ = 0 /\ numDCons_ = 0
  /\ engine_ = FALSE
  /\ vbnd = (0 :> [lb |-> 0, ub |-> 1]) @@ (1 :> [lb |-> 0, ub |-> 1])
  /\ vcons = (0 :> {}) @@ (1 :> {})
  /\ cfun = <<>> /\ cbnd = <<>>
  /\ obj_ = [f |-> 1, neg |-> FALSE]
  /\ engineSaw = NoCall

\* Problem::newConstraint(f, lb, ub, name) with a function f
NewConstraintF ==
  \E f \in FunVals :
    /\ nextCId_ < MaxRefCons
    /\ cons_' = newCons(cons_, nextCId_)
    /\ nextCId_' = nextCId_ + 1
    /\ vcons' = inConstraint_(vcons, FunVars(f), nextCId_)
    /\ cfun' = cfun @@ (nextCId_ :> f)
    /\ cbnd' = cbnd @@ (nextCId_ :> [lb |-> 0, ub |-> 1])
    /\ UNCHANGED <<vars_, nextVId_, numDVars_, numDCons_, engine_, vbnd, obj_, engineSaw>>
    /\ UNCHANGED hvars

\* Constraint::subst_(out, in, rat, &stayin): out replaced by rat*in in
\* every part of the function; with cancel, the terms of in in the linear
\* part add up to zero
subst_(f, out, in, cancel) ==
  LET lf1 == IF out \in f.lf THEN (f.lf \ {out}) \cup {in} ELSE f.lf
      qf1 == IF out \in f.qf THEN (f.qf \ {out}) \cup {in} ELSE f.qf
  IN  [lf |-> IF cancel /\ out \in f.lf /\ in \in f.lf THEN lf1 \ {in} ELSE lf1,
       qf |-> qf1]

\* Problem::subst(out, in, rat)
Subst ==
  \E out \in DOMAIN vcons, in \in DOMAIN vcons, cancel \in BOOLEAN :
    LET touched == vcons[out]
        f1 == [c \in DOMAIN cfun |->
                 IF c \in touched THEN subst_(cfun[c], out, in, cancel) ELSE cfun[c]]
        stay == {c \in touched : in \in FunVars(f1[c])}
    IN  /\ NoEngine
        /\ out # in
        /\ touched \subseteq DOMAIN cfun
        /\ cfun' = f1
        /\ vcons' = [vcons EXCEPT ![in] = (vcons[in] \cup stay) \ (touched \ stay)]
        /\ UNCHANGED <<vars_, cons_, nextVId_, nextCId_, numDVars_, numDCons_, engine_,
                       vbnd, cbnd, obj_, engineSaw>>
        /\ UNCHANGED hvars

NextRefs ==
  NewConstraintF \/ ChangeConstraint \/ Subst \/ MarkDeleteCons \/ DelMarkedCons

SpecRefs == InitRefs /\ [][NextRefs]_vars

\* C13: for every constraint c of the problem and every variable v of any
\* part of c's function, c is in v's set of constraints; and no variable
\* refers back to a constraint that has been removed.
C13_BackRefs ==
  /\ \A i \in DOMAIN cons_ : \A v \in FunVars(cfun[cons_[i].id]) : cons_[i].id \in vcons[v]
  /\ \A v \in DOMAIN vcons : vcons[v] \subseteq Ids(cons_)


---------------------------------------------------------------------------
(* SpecUnb: the initial relaxation of terms whose operands can be          *)
(* unbounded.                                                              *)

UnbLbVals == {-INFINITY, -10000, 0}
UnbUbVals == {0, 20000, INFINITY}

InitUnb ==
  /\ \E l0 \in UnbLbVals, u0 \in UnbUbVals, l1 \in UnbLbVals, u1 \in UnbUbVals :
       /\ pLb = [WideLb EXCEPT ![X0] = l0, ![X1] = l1]
       /\ pUb = [WideUb EXCEPT ![X0] = u0, ![X1] = u1]
  /\ rLb = pLb /\ rUb = pUb
  /\ rCons = <<>>
  /\ x2Funs = <<LinSqr0>> /\ x0x1Funs = <<LinBil0>>
  /\ sol = NoSol
  /\ frames = <<>>
  /\ pc = "start"
  /\ ret = NoRet
  /\ restored = NoSnap
  /\ ContainerIdle

NextUnb == RelaxInit

SpecUnb == InitUnb /\ [][NextUnb]_vars

\* a number that is not finite
NotFinite(a) == IsInf(a) \/ a = NaN

\* an operand of the term has a bound that is not finite
UnboundedOperand(t) ==
  \E v \in {t.x0, t.x1} : NotFinite(rLb[v]) \/ NotFinite(rUb[v])

\* C14: building the initial relaxation adds no envelope for a LinBil that
\* has an operand with a non-finite bound, and no constraint of the
\* relaxation has an infinite weight or right-hand side.
C14_NoUnboundedEnvelope ==
  ret.op \in {"relaxInitFull", "relaxInitInc"} =>
    /\ \A i \in DOMAIN x0x1Funs :
         UnboundedOperand(x0x1Funs[i]) =>
           /\ x0x1Funs[i].c0 = 0 /\ x0x1Funs[i].c1 = 0
           /\ x0x1Funs[i].c2 = 0 /\ x0x1Funs[i].c3 = 0
    /\ \A k \in DOMAIN rCons :
         /\ ~NotFinite(rCons[k].ub)
         /\ \A v \in Vars : ~NotFinite(rCons[k].lf[v])

---------------------------------------------------------------------------
(* SpecBr: getBrMod and getBranches at a solved node whose bounds on yb    *)
(* are any the problem may declare, not only those of the product.         *)

BrX1Vals == {-10000, 0, 20000}
BrYBVals == {-400000000, 0, 100000000, 400000000}
BrSolX0 == {-10000, 5000}
BrSolX1 == {-5000, 0, 10000}

InitBr ==
  /\ \E b1 \in Boxes(BrX1Vals), bb \in Boxes(BrYBVals) :
       /\ pLb = [WideLb EXCEPT ![X1] = b1.lb, ![YB] = bb.lb]
       /\ pUb = [WideUb EXCEPT ![X1] = b1.ub, ![YB] = bb.ub]
  /\ rLb = pLb /\ rUb = pUb
  /\ rCons = <<>>
  /\ x2Funs = <<LinSqr0>> /\ x0x1Funs = <<LinBil0>>
  /\ \E a \in BrSolX0, b \in BrSolX1, d \in BrYBVals :
       /\ sol = (X0 :> a) @@ (X1 :> b) @@ (YS :> a * a) @@ (YB :> d)
       /\ LPFeasible(sol)
  /\ frames = <<>>
  /\ pc = "solved"
  /\ ret = NoRet
  /\ restored = NoSnap
  /\ ContainerIdle

NextBr == GetBrMod \/ Branch

SpecBr == InitBr /\ [][NextBr]_vars

\* the modification m does not move a bound of its variable outwards
Tightens(m) ==
  CASE m.kind = "VarBoundMod2" -> m.newLb >= rLb[m.var] /\ m.newUb <= rUb[m.var]
    [] m.kind \in {"VarBoundMod", "SecantMod"} ->
         IF m.lu = "Upper" THEN m.newVal <= rUb[m.var] ELSE m.newVal >= rLb[m.var]

\* C26: every bound modification of getBrMod stays within the bounds its
\* variable has when getBrMod is called, and after the descent into a
\* branch of getBranches no bound is outside its value in the node left.
C26_NeverLoosens ==
  /\ ret.op = "getBrMod" =>
       \A j \in DOMAIN ModList(ret.out.mod) : Tightens(ModList(ret.out.mod)[j])
  /\ ret.op = "getBranches" =>
       LET was == frames[Len(frames)].saved
       IN  \A v \in Vars :
             /\ pLb[v] >= was.pLb[v] /\ pUb[v] <= was.pUb[v]
             /\ rLb[v] >= was.rLb[v] /\ rUb[v] <= was.rUb[v]

---------------------------------------------------------------------------
(* SpecAdd: constraints added to a Problem while an engine is attached.    *)
(* engineSaw.cons is the engine's list of constraints, by id: those of the *)
(* problem when the engine is attached, then one more for every call of    *)
(* Engine::addConstraint.                                                  *)

\* the ids of the constraints of the problem, in order
ConsIds == [i \in DOMAIN cons_ |-> cons_[i].id]

InitAdd ==
  /\ HandlerIdle
  /\ vars_ = <<>> /\ cons_ = <<>>
  /\ nextVId_ = 0 /\ nextCId_ = 0
  /\ numDVars_ = 0 /\ numDCons_ = 0
  /\ engine_ = FALSE
  /\ vbnd = <<>> /\ vcons = <<>> /\ cfun = <<>> /\ cbnd = <<>>
  /\ obj_ = NoObj
  /\ engineSaw = [op |-> "none", cons |-> <<>>]

\* Problem::setEngine(engine), the engine taking over the problem as it is
AttachEngine ==
  /\ engine_' = TRUE
  /\ engineSaw' = [op |-> "load", cons |-> ConsIds]
  /\ UNCHANGED <<vars_, cons_, nextVId_, nextCId_, numDVars_, numDCons_>>
  /\ UNCHANGED <<vbnd, vcons, cfun, cbnd, obj_>>
  /\ UNCHANGED hvars

\* engine_->addConstraint(c) if an engine is attached
addConstraint(saw, c) ==
  IF engine_ THEN [op |-> "addConstraint", cons |-> Append(saw.cons, c)] ELSE saw

\* newConstraint(f, lb, ub): the named overload it calls forwards the
\* constraint, and then it forwards the constraint itself
forwardUnnamed(saw, c) == addConstraint(addConstraint(saw, c), c)

\* the constraint c with the bound ub joins the problem
Added(c, ub) ==
  /\ cons_' = newCons(cons_, c)
  /\ nextCId_' = c + 1
  /\ cbnd' = cbnd @@ (c :> [lb |-> -INFINITY, ub |-> ub])
  /\ UNCHANGED <<vars_, nextVId_, numDVars_, numDCons_, engine_>>
  /\ UNCHANGED <<vbnd, vcons, cfun, obj_>>
  /\ UNCHANGED hvars

\* Problem::newConstraint(f, lb, ub, name)
NewConstraintNamed ==
  /\ nextCId_ < MaxCId
  /\ \E ub \in BndVals : Added(nextCId_, ub)
  /\ engineSaw' = addConstraint(engineSaw, nextCId_)

\* Problem::newConstraint(f, lb, ub), the overload relax_ and addCut_ call
NewConstraintUnnamed ==
  /\ nextCId_ < MaxCId
  /\ \E ub \in BndVals : Added(nextCId_, ub)
  /\ engineSaw' = forwardUnnamed(engineSaw, nextCId_)

\* Problem::unsetEngine
DetachEngine ==
  /\ engine_
  /\ engine_' = FALSE
  /\ UNCHANGED <<vars_, cons_, nextVId_, nextCId_, numDVars_, numDCons_>>
  /\ UNCHANGED xvars
  /\ UNCHANGED hvars

NextAdd == AttachEngine \/ DetachEngine \/ NewConstraintNamed \/ NewConstraintUnnamed

SpecAdd == InitAdd /\ [][NextAdd]_vars

\* C27: while an engine is attached, the engine's list of constraints is
\* the list of the constraints of the problem: every constraint added
\* through either newConstraint overload is in it exactly once.
C27_ForwardedOnce ==
  engine_ => engineSaw.cons = ConsIds

---------------------------------------------------------------------------
(* SpecTrack: constraints handed to QuadHandler::addConstraint.  cons_ is  *)
(* the handler's list of the constraints it was given, by id, and cfun the *)
(* function of each: lf its linear part, the variable y, and nlf the       *)
(* variables of its nonlinear part, one for x^2 and two for x0*x1.         *)

\* how many constraints are handed to the handler
MaxTracked == 2

\* the functions a constraint y = x^2 or y = x0*x1 can have
QuadFuns ==
  {f \in [lf : YVars, nlf : SUBSET Vars] :
     Cardinality(f.nlf) \in {1, 2} /\ f.lf \notin f.nlf}

\* CompareLinBil::operator(): b0 is ordered before b1
CompareLinBil(b0, b1) ==
  IF b0.x0 = b1.x0 THEN b0.x1 < b1.x1 ELSE b0.x0 < b1.x0

\* x2Funs_.insert(pair(x0, lx2)): a key already in the map keeps its record
insertLinSqr(m, lx2) ==
  IF \E i \in DOMAIN m : m[i].x = lx2.x THEN m
  ELSE SelectSeq(m, LAMBDA r : r.x < lx2.x) \o <<lx2>>
         \o SelectSeq(m, LAMBDA r : r.x > lx2.x)

\* x0x1Funs_.insert(linbil): an element neither before nor after linbil in
\* the order of CompareLinBil is taken for linbil itself, which is dropped
insertLinBil(st, linbil) ==
  IF \E i \in DOMAIN st :
       ~CompareLinBil(st[i], linbil) /\ ~CompareLinBil(linbil, st[i]) THEN st
  ELSE SelectSeq(st, LAMBDA r : CompareLinBil(r, linbil)) \o <<linbil>>
         \o SelectSeq(st, LAMBDA r : CompareLinBil(linbil, r))

\* the smallest and the largest variable of a set, as varsBegin() walks it
MinVar(S) == CHOOSE v \in S : \A w \in S : v <= w
MaxVar(S) == CHOOSE v \in S : \A w \in S : v >= w

InitTrack ==
  /\ HandlerIdle
  /\ vars_ = <<>> /\ cons_ = <<>>
  /\ nextVId_ = 0 /\ nextCId_ = 0
  /\ numDVars_ = 0 /\ numDCons_ = 0
  /\ engine_ = FALSE
  /\ vbnd = <<>> /\ vcons = <<>> /\ cfun = <<>> /\ cbnd = <<>>
  /\ obj_ = NoObj
  /\ engineSaw = NoCall

\* QuadHandler::addConstraint(newcon)
AddConstraint ==
  /\ Len(cons_) < MaxTracked
  /\ \E f \in QuadFuns :
       LET id == Len(cons_) + 1
           y == f.lf
       IN  /\ cons_' = Append(cons_, id)
           /\ cfun' = cfun @@ (id :> f)
           /\ IF Cardinality(f.nlf) = 1
                THEN /\ x2Funs' = insertLinSqr(x2Funs,
                                    [x |-> MinVar(f.nlf), y |-> y, oeCon |-> 0])
                     /\ x0x1Funs' = x0x1Funs
                ELSE /\ x0x1Funs' = insertLinBil(x0x1Funs,
                                      [x0 |-> MinVar(f.nlf), x1 |-> MaxVar(f.nlf),
                                       y |-> y, c0 |-> 0, c1 |-> 0, c2 |-> 0,
                                       c3 |-> 0])
                     /\ x2Funs' = x2Funs
  /\ ret' = Ret("addConstraint", FALSE, FALSE, "none")
  /\ UNCHANGED <<pLb, pUb, rLb, rUb, rCons, sol, frames, pc, restored>>
  /\ UNCHANGED <<vars_, nextVId_, nextCId_, numDVars_, numDCons_, engine_>>
  /\ UNCHANGED <<vbnd, vcons, cbnd, obj_, engineSaw>>

NextTrack == AddConstraint

SpecTrack == InitTrack /\ [][NextTrack]_vars

\* the constraint with function f has a record of its own
Tracked(f) ==
  IF Cardinality(f.nlf) = 1
    THEN \E i \in DOMAIN x2Funs :
           x2Funs[i].x = MinVar(f.nlf) /\ x2Funs[i].y = f.lf
    ELSE \E i \in DOMAIN x0x1Funs :
           /\ x0x1Funs[i].x0 = MinVar(f.nlf) /\ x0x1Funs[i].x1 = MaxVar(f.nlf)
           /\ x0x1Funs[i].y = f.lf

\* C29: every constraint handed to addConstraint has a LinSqr or LinBil
\* record with its operands and its own y, also when it shares its operand
\* x or its operand pair with a constraint handed in before.
C29_EveryConstraintTracked ==
  \A i \in DOMAIN cons_ : Tracked(cfun[cons_[i]])

---------------------------------------------------------------------------
(* SpecCand: getBranchingCandidates on the solutions of the relaxation of  *)
(* the root node, for boxes of the operands that include narrow ones       *)
(* around zero, and solutions that include the corners of the box.         *)

CandX0Vals == {-1000, 0, 1001, 20000}
CandX1Vals == {0, 10000}
\* how far above or below its term the engine may leave a y
CandGaps == {-1000000, 0, 1000, 1000000}

InitCand ==
  /\ \E b0 \in Boxes(CandX0Vals), b1 \in Boxes(CandX1Vals) :
       /\ pLb = [WideLb EXCEPT ![X0] = b0.lb, ![X1] = b1.lb]
       /\ pUb = [WideUb EXCEPT ![X0] = b0.ub, ![X1] = b1.ub]
  /\ rLb = pLb /\ rUb = pUb
  /\ rCons = <<>>
  /\ x2Funs = <<LinSqr0>> /\ x0x1Funs = <<LinBil0>>
  /\ sol = NoSol
  /\ frames = <<>>
  /\ pc = "start"
  /\ ret = NoRet
  /\ restored = NoSnap
  /\ ContainerIdle

\* the engine solves the relaxation: any point within the bounds and the
\* constraints of the relaxation, a corner of the box of the operands or
\* a point inside it
SolveCand ==
  /\ pc = "presolved"
  /\ \E a \in {rLb[X0], rUb[X0]} \cup SolX0, b \in {rLb[X1], rUb[X1]} \cup SolX1,
        g \in CandGaps, h \in CandGaps :
       LET x == (X0 :> a) @@ (X1 :> b) @@ (YS :> a * a + g) @@ (YB :> a * b + h)
       IN  LPFeasible(x) /\ sol' = x
  /\ pc' = "solved"
  /\ ret' = Ret("solve", FALSE, FALSE, "none")
  /\ restored' = NoSnap
  /\ UNCHANGED <<pLb, pUb, rLb, rUb, rCons, x2Funs, x0x1Funs, frames>>
  /\ UNCHANGED cvars

NextCand == RelaxInit \/ PresolveNode \/ SolveCand \/ GetBranchingCandidates

SpecCand == InitCand /\ [][NextCand]_vars

\* C30: every variable getBranchingCandidates proposes for a solution of
\* the relaxation has its value strictly inside its bounds, as getBranches
\* asserts: value > lb + 1e-8 and value < ub - 1e-8.
C30_CandidatesCanBranch ==
  ret.op = "getBranchingCandidates" =>
    \A v \in ret.out : CanBranch(CurStore, v, sol[v])

====
